---- MODULE Spec2Model ----
(***************************************************************************)
(* The DRAM memory controller of src/src/dram_controller.cc as a state     *)
(* machine.  Time is counted in clock periods (clock_period = 1).  One     *)
(* controller tick (MEMORY_CONTROLLER::operate) is one action: it runs     *)
(*   initiate_requests; for each channel: operate                          *)
(* and DRAM_CHANNEL::operate runs the warmup drain and its six calls in    *)
(* order.  The channel state after each of these calls in the latest tick  *)
(* is kept in hist, so that properties of a single call can be stated.     *)
(* The upstream caches fill their queues between ticks (Submit).           *)
(*                                                                         *)
(* The declaration of DRAM_CHANNEL::request_type is not part of the source *)
(* file.  A queue entry is modelled as the record the constructors at      *)
(* lines 436-446 build (address, packets) plus the flags the code sets;    *)
(* the request-level accesses to_return, data and instr_depend_on_me of    *)
(* operate, finish_dbus_request and check_read_collision denote those of   *)
(* packets[0], the packet add_rq fills in (line 458).                      *)
(***************************************************************************)
EXTENDS Integers, Sequences, FiniteSets, TLC

VARIABLES
  cfg,           \* construction parameters and the address slicer built from them
  current_time,  \* champsim::operable::current_time, in clock periods
  warmup,        \* DRAM_CHANNEL::warmup (set by begin_phase)
  channels,      \* MEMORY_CONTROLLER::channels: channel index -> DRAM_CHANNEL state
  queues,        \* MEMORY_CONTROLLER::queues: upstream index -> its RQ, PQ, WQ, returned
  pc,            \* "running", or "terminated" once an exception has left operate
  submitted,     \* number of packets the upstreams have produced so far
  hist           \* history of the run (observations only, never read by the code)

vars == <<cfg, current_time, warmup, channels, queues, pc, submitted, hist>>

(***************************************************************************)
(* Bounds of the model.                                                    *)
(***************************************************************************)
MaxTime == 8             \* ticks executed
MaxPackets == 3          \* packets the upstreams produce in a run
MaxSubmitTime == 1       \* the upstreams produce at times 0..MaxSubmitTime
ScenarioMaxTime == 34
ScenarioMaxSubmit == 21
ScenarioMaxPackets == 2
AdmissionMaxTime == 3
AdmissionMaxSubmit == 2
AdmissionMaxPackets == 4
WarmupMaxTime == 5
WarmupMaxSubmit == 3
WarmupMaxPackets == 3
CollisionMaxTime == 2
CollisionMaxSubmit == 1
CollisionMaxPackets == 1
SwitchMaxTime == 10
SwitchMaxSubmit == 4
SwitchMaxPackets == 4
DrainEpoch == 2          \* ticks after which the clock starts again at 0
DrainMaxPackets == 3

(***************************************************************************)
(* Program constants.                                                      *)
(***************************************************************************)
BLOCK_SIZE == 64
TIME_MAX == 1000000

(***************************************************************************)
(* Address mapping (DRAM_ADDRESS_MAPPING).                                 *)
(***************************************************************************)
RECURSIVE lg2(_)
lg2(n) == IF n <= 1 THEN 0 ELSE 1 + lg2(n \div 2)

RECURSIVE Pow2(_)
Pow2(k) == IF k = 0 THEN 1 ELSE 2 * Pow2(k - 1)

\* The slices from the least significant bit upward.
SLICER_ORDER == <<"offset", "column", "bank", "rank", "channel", "row">>

slicer_params(c) ==
  [row     |-> c.rows,
   column  |-> c.columns \div c.prefetch_size,
   rank    |-> c.ranks,
   bank    |-> c.banks,
   channel |-> c.channels,
   offset  |-> c.channel_width * c.prefetch_size]

RECURSIVE extent_lower(_, _)
extent_lower(c, i) ==
  IF i = 1 THEN 0
  ELSE extent_lower(c, i - 1) + lg2(slicer_params(c)[SLICER_ORDER[i - 1]])

make_slicer(c) ==
  [f \in {SLICER_ORDER[i] : i \in 1..Len(SLICER_ORDER)} |->
     LET i == CHOOSE j \in 1..Len(SLICER_ORDER) : SLICER_ORDER[j] = f
     IN  [lower |-> extent_lower(c, i), width |-> lg2(slicer_params(c)[f])]]

address_slicer(field, address) ==
  (address \div Pow2(cfg.slicer[field].lower)) % Pow2(cfg.slicer[field].width)

get_channel(address) == address_slicer("channel", address)
get_rank(address)    == address_slicer("rank", address)
get_bank(address)    == address_slicer("bank", address)
get_row(address)     == address_slicer("row", address)
get_column(address)  == address_slicer("column", address)
get_offset(address)  == address_slicer("offset", address)

mapping_ranks    == Pow2(cfg.slicer["rank"].width)
mapping_banks    == Pow2(cfg.slicer["bank"].width)
mapping_channels == Pow2(cfg.slicer["channel"].width)

\* A comparison of the whole addresses.
is_collision_exact(a, b) == a = b

is_collision(a, b) ==
  LET a_m == a - get_offset(a)
      b_m == b - get_offset(b)
  IN  a_m = b_m

\* MEMORY_CONTROLLER::size (lines 491-494): 1 << address_slicer.bit_size().
DRAM_size(c) ==
  Pow2(extent_lower(c, Len(SLICER_ORDER))
         + lg2(slicer_params(c)[SLICER_ORDER[Len(SLICER_ORDER)]]))

bank_request_index(addr) == get_rank(addr) * mapping_banks + get_bank(addr)

(***************************************************************************)
(* Records.                                                                *)
(***************************************************************************)
NoRow == -1

\* An empty std::optional<request_type> slot of RQ or WQ.
EmptySlot ==
  [has_value       |-> FALSE,
   address         |-> 0,
   packets         |-> <<>>,
   forward_checked |-> FALSE,
   scheduled       |-> FALSE,
   ready_time      |-> 0]

\* DRAM_CHANNEL::packet_type built from an upstream request (lines 436-441).
packet_type(req) ==
  [address            |-> req.address,
   data               |-> req.data,
   instr_depend_on_me |-> req.instr_depend_on_me,
   to_return          |-> <<>>]

\* DRAM_CHANNEL::request_type built from an upstream request (lines 442-446).
request_type(req) ==
  [has_value       |-> TRUE,
   address         |-> req.address,
   packets         |-> <<packet_type(req)>>,
   forward_checked |-> FALSE,
   scheduled       |-> FALSE,
   ready_time      |-> 0]

NoPkt == [q |-> "none", idx |-> 0]

\* A default-constructed BANK_REQUEST.
IdleBank ==
  [valid          |-> FALSE,
   row_buffer_hit |-> FALSE,
   open_row       |-> NoRow,
   ready_time     |-> 0,
   pkt            |-> NoPkt]

NewStats ==
  [RQ_ROW_BUFFER_HIT    |-> 0,
   RQ_ROW_BUFFER_MISS   |-> 0,
   WQ_ROW_BUFFER_HIT    |-> 0,
   WQ_ROW_BUFFER_MISS   |-> 0,
   WQ_FULL              |-> 0,
   dbus_cycle_congested |-> 0,
   dbus_count_congested |-> 0]

\* DRAM_CHANNEL::DRAM_CHANNEL (lines 41-50); active_request = NumBanks(ch) is
\* std::end(bank_request).
NewChannel(c) ==
  [WQ                   |-> [i \in 1..c.wq_size |-> EmptySlot],
   RQ                   |-> [i \in 1..c.rq_size |-> EmptySlot],
   bank_request         |-> [b \in 0..(Pow2(lg2(c.ranks)) * Pow2(lg2(c.banks)) - 1) |-> IdleBank],
   active_request       |-> Pow2(lg2(c.ranks)) * Pow2(lg2(c.banks)),
   dbus_cycle_available |-> 0,
   write_mode           |-> FALSE,
   sim_stats            |-> NewStats]

NumBanks(ch) == Cardinality(DOMAIN ch.bank_request)
BankEnd(ch) == NumBanks(ch)

DRAM_DBUS_RETURN_TIME == cfg.clock_period * cfg.prefetch_size

QueueOf(ch, q) == IF q = "WQ" THEN ch.WQ ELSE ch.RQ

SetSlot(ch, q, i, e) ==
  IF q = "WQ" THEN [ch EXCEPT !.WQ[i] = e] ELSE [ch EXCEPT !.RQ[i] = e]

Occupancy(Q) == Cardinality({i \in DOMAIN Q : Q[i].has_value})

(***************************************************************************)
(* Responses.                                                              *)
(***************************************************************************)
\* response_type{address, v_address, data, pf_metadata, instr_depend_on_me}
response_type(address, data, instr_depend_on_me) ==
  [address |-> address, data |-> data, instr_depend_on_me |-> instr_depend_on_me]

\* for (auto* ret : to_return) ret->push_back(response): the pushes, in order.
RECURSIVE push_back_all(_, _)
push_back_all(to_return, response) ==
  IF to_return = <<>> THEN <<>>
  ELSE <<[ret |-> Head(to_return), response |-> response]>>
         \o push_back_all(Tail(to_return), response)

\* A merge that keeps only the second range.
set_union_keeps_second(a, b) == b

\* std::set_union of two sorted ranges.
RECURSIVE set_union(_, _)
set_union(a, b) ==
  IF a = <<>> THEN b
  ELSE IF b = <<>> THEN a
  ELSE IF Head(b) < Head(a) THEN <<Head(b)>> \o set_union(a, Tail(b))
  ELSE <<Head(a)>> \o set_union(Tail(a), IF Head(a) < Head(b) THEN b ELSE Tail(b))

\* std::find_if over the slots lo..hi-1 of Q for a present entry of check_val's
\* block; hi when there is none.
find_collision(Q, lo, hi, check_val) ==
  LET hits == {j \in lo..(hi - 1) : Q[j].has_value /\ is_collision(Q[j].address, check_val)}
  IN  IF hits = {} THEN hi ELSE CHOOSE j \in hits : \A k \in hits : j <= k

(***************************************************************************)
(* DRAM_CHANNEL::operate, lines 90-109: the warmup drain.                  *)
(***************************************************************************)
RECURSIVE warmup_drain_RQ(_, _)
warmup_drain_RQ(RQ, i) ==
  IF i > Len(RQ) THEN <<>>
  ELSE (IF RQ[i].has_value
          THEN push_back_all(RQ[i].packets[1].to_return,
                 response_type(RQ[i].address, RQ[i].packets[1].data,
                               RQ[i].packets[1].instr_depend_on_me))
          ELSE <<>>)
       \o warmup_drain_RQ(RQ, i + 1)

\* A drain that forgets the write queue.
operate_warmup_keeps_WQ(ch) ==
  IF warmup
    THEN [ch  |-> [ch EXCEPT !.RQ = [i \in DOMAIN ch.RQ |-> EmptySlot]],
          out |-> warmup_drain_RQ(ch.RQ, 1),
          threw |-> FALSE]
    ELSE [ch |-> ch, out |-> <<>>, threw |-> FALSE]

operate_warmup(ch) ==
  IF warmup
    THEN [ch  |-> [ch EXCEPT !.RQ = [i \in DOMAIN ch.RQ |-> EmptySlot],
                             !.WQ = [i \in DOMAIN ch.WQ |-> EmptySlot]],
          out |-> warmup_drain_RQ(ch.RQ, 1),
          threw |-> FALSE]
    ELSE [ch |-> ch, out |-> <<>>, threw |-> FALSE]

(***************************************************************************)
(* DRAM_CHANNEL::check_write_collision                                     *)
(***************************************************************************)
\* A search that forgets the entries behind wq_it.
write_collision_found_forward_only(WQ, wq_it) ==
  LET first == find_collision(WQ, 1, wq_it, WQ[wq_it].address)
  IN  IF first = wq_it THEN Len(WQ) + 1 ELSE first

\* Lines 345-348: the entries before wq_it are searched, then those behind it;
\* Len(WQ) + 1 is std::end(WQ).
write_collision_found(WQ, wq_it) ==
  LET first == find_collision(WQ, 1, wq_it, WQ[wq_it].address)
  IN  IF first = wq_it
        THEN find_collision(WQ, wq_it + 1, Len(WQ) + 1, WQ[wq_it].address)
        ELSE first

RECURSIVE check_write_collision_from(_, _)
check_write_collision_from(WQ, wq_it) ==
  IF wq_it > Len(WQ) THEN WQ
  ELSE IF WQ[wq_it].has_value /\ ~WQ[wq_it].forward_checked
    THEN check_write_collision_from(
           IF write_collision_found(WQ, wq_it) # Len(WQ) + 1
             THEN [WQ EXCEPT ![wq_it] = EmptySlot]
             ELSE [WQ EXCEPT ![wq_it].forward_checked = TRUE],
           wq_it + 1)
    ELSE check_write_collision_from(WQ, wq_it + 1)

check_write_collision(ch) ==
  [ch |-> [ch EXCEPT !.WQ = check_write_collision_from(ch.WQ, 1)], out |-> <<>>, threw |-> FALSE]

(***************************************************************************)
(* DRAM_CHANNEL::check_read_collision                                      *)
(***************************************************************************)
\* Lines 379-393 and 398-412: each packet of the entry being dropped is looked
\* up by exact address among the packets of the entry that stays; when it is
\* found the dependencies and return sinks are united, and when it is not the
\* loop body does nothing.
RECURSIVE merge_packets(_, _, _)
merge_packets(into, from, k) ==
  IF k > Len(from) THEN into
  ELSE LET mrg_pkt == from[k]
           same    == {m \in 1..Len(into) : into[m].address = mrg_pkt.address}
       IN  IF same # {}
             THEN LET m == CHOOSE x \in same : \A y \in same : x <= y
                      merged == [into[m] EXCEPT
                                   !.instr_depend_on_me =
                                      set_union(into[m].instr_depend_on_me, mrg_pkt.instr_depend_on_me),
                                   !.to_return =
                                      set_union(into[m].to_return, mrg_pkt.to_return)]
                  IN  merge_packets([into EXCEPT ![m] = merged], from, k + 1)
             ELSE merge_packets(into, from, k + 1)

\* A response that carries the read's own payload.
forwarded_response_own_data(rq_entry, wq_entry) ==
  response_type(rq_entry.address, rq_entry.packets[1].data,
                rq_entry.packets[1].instr_depend_on_me)

\* Lines 368-369: the response to a forwarded read carries the write's data.
forwarded_response(rq_entry, wq_entry) ==
  response_type(rq_entry.address, wq_entry.packets[1].data,
                rq_entry.packets[1].instr_depend_on_me)

\* A search that starts one slot late.
forwarding_write_skips_first(WQ, check_val) == find_collision(WQ, 2, Len(WQ) + 1, check_val)

\* Line 367: the WQ entry of the read's block, Len(WQ) + 1 when there is none.
forwarding_write(WQ, check_val) == find_collision(WQ, 1, Len(WQ) + 1, check_val)

RECURSIVE check_read_collision_from(_, _, _, _)
check_read_collision_from(RQ, WQ, rq_it, out) ==
  IF rq_it > Len(RQ) THEN [RQ |-> RQ, out |-> out]
  ELSE IF RQ[rq_it].has_value /\ ~RQ[rq_it].forward_checked
    THEN LET check_val == RQ[rq_it].address
             wq_it     == forwarding_write(WQ, check_val)
             before    == find_collision(RQ, 1, rq_it, check_val)
             after     == find_collision(RQ, rq_it + 1, Len(RQ) + 1, check_val)
         IN  IF wq_it # Len(WQ) + 1
               THEN \* write forwarding
                    check_read_collision_from(
                      [RQ EXCEPT ![rq_it] = EmptySlot], WQ, rq_it + 1,
                      out \o push_back_all(RQ[rq_it].packets[1].to_return,
                               forwarded_response(RQ[rq_it], WQ[wq_it])))
             ELSE IF before # rq_it
               THEN \* backwards check
                    check_read_collision_from(
                      [RQ EXCEPT ![before].packets =
                                    merge_packets(RQ[before].packets, RQ[rq_it].packets, 1),
                                 ![rq_it] = EmptySlot],
                      WQ, rq_it + 1, out)
             ELSE IF after # Len(RQ) + 1
               THEN \* forwards check
                    check_read_collision_from(
                      [RQ EXCEPT ![after].packets =
                                    merge_packets(RQ[after].packets, RQ[rq_it].packets, 1),
                                 ![rq_it] = EmptySlot],
                      WQ, rq_it + 1, out)
             ELSE check_read_collision_from(
                    [RQ EXCEPT ![rq_it].forward_checked = TRUE], WQ, rq_it + 1, out)
    ELSE check_read_collision_from(RQ, WQ, rq_it + 1, out)

check_read_collision(ch) ==
  LET r == check_read_collision_from(ch.RQ, ch.WQ, 1, <<>>)
  IN  [ch |-> [ch EXCEPT !.RQ = r.RQ], out |-> r.out, threw |-> FALSE]

(***************************************************************************)
(* DRAM_CHANNEL::finish_dbus_request                                       *)
(***************************************************************************)
\* The queue entry a bank request's pkt iterator points at.
PktEntry(ch, pkt) == QueueOf(ch, pkt.q)[pkt.idx]

\* std::optional::value() of an empty slot throws std::bad_optional_access.
PktHasValue(ch, pkt) == pkt.q # "none" /\ PktEntry(ch, pkt).has_value

\* A completion that leaves the queue entry in its slot.
finish_dbus_request_keeps_entry(ch, now) ==
  IF ch.active_request # BankEnd(ch) /\ ch.bank_request[ch.active_request].ready_time <= now
    THEN LET a   == ch.active_request
             pkt == ch.bank_request[a].pkt
             e   == PktEntry(ch, pkt)
         IN  [ch    |-> [ch EXCEPT !.bank_request[a].valid = FALSE,
                                   !.active_request = BankEnd(ch)],
              out   |-> push_back_all(e.packets[1].to_return,
                          response_type(e.address, e.packets[1].data,
                                        e.packets[1].instr_depend_on_me)),
              threw |-> FALSE]
    ELSE [ch |-> ch, out |-> <<>>, threw |-> FALSE]

finish_dbus_request(ch, now) ==
  IF ch.active_request # BankEnd(ch) /\ ch.bank_request[ch.active_request].ready_time <= now
    THEN LET a   == ch.active_request
             pkt == ch.bank_request[a].pkt
         IN  IF ~PktHasValue(ch, pkt)
               THEN [ch |-> ch, out |-> <<>>, threw |-> TRUE]
               ELSE LET e        == PktEntry(ch, pkt)
                        response == response_type(e.address, e.packets[1].data,
                                                  e.packets[1].instr_depend_on_me)
                        ch1      == [ch EXCEPT !.bank_request[a].valid = FALSE,
                                               !.active_request = BankEnd(ch)]
                    IN  [ch    |-> SetSlot(ch1, pkt.q, pkt.idx, EmptySlot),
                         out   |-> push_back_all(e.packets[1].to_return, response),
                         threw |-> FALSE]
    ELSE [ch |-> ch, out |-> <<>>, threw |-> FALSE]

(***************************************************************************)
(* DRAM_CHANNEL::swap_write_mode                                           *)
(***************************************************************************)
DRAM_WRITE_HIGH_WM(ch) == (Len(ch.WQ) * 7) \div 8
DRAM_WRITE_LOW_WM(ch)  == (Len(ch.WQ) * 6) \div 8

\* A test with a strict comparison against the high watermark.
swap_condition_strict(ch) ==
  LET wq_occu == Occupancy(ch.WQ)
      rq_occu == Occupancy(ch.RQ)
  IN  \/ (~ch.write_mode /\ (wq_occu > DRAM_WRITE_HIGH_WM(ch) \/ (rq_occu = 0 /\ wq_occu > 0)))
      \/ (ch.write_mode /\ (wq_occu = 0 \/ (rq_occu > 0 /\ wq_occu < DRAM_WRITE_LOW_WM(ch))))

\* Lines 154-155.
swap_condition(ch) ==
  LET wq_occu == Occupancy(ch.WQ)
      rq_occu == Occupancy(ch.RQ)
  IN  \/ (~ch.write_mode /\ (wq_occu >= DRAM_WRITE_HIGH_WM(ch) \/ (rq_occu = 0 /\ wq_occu > 0)))
      \/ (ch.write_mode /\ (wq_occu = 0 \/ (rq_occu > 0 /\ wq_occu < DRAM_WRITE_LOW_WM(ch))))

\* Lines 157-170: the loop over bank_request; the banks are visited in order and
\* each visit touches its own bank and the queue entry its pkt points at.
\* A reset that always closes the row.
open_row_always_reset(br, now) == NoRow

\* Lines 160-163: the row stays open unless the bank request was within tCAS
\* of its ready time.
open_row_after_reset(br, now) ==
  IF br.ready_time < now + cfg.tCAS THEN NoRow ELSE br.open_row

RECURSIVE reset_scheduled_from(_, _, _)
reset_scheduled_from(r, it, now) ==
  IF r.threw \/ it >= NumBanks(r.ch) THEN r
  ELSE LET ch == r.ch
           br == ch.bank_request[it]
       IN  IF it # ch.active_request /\ br.valid
             THEN IF ~PktHasValue(ch, br.pkt)
                    THEN [r EXCEPT !.threw = TRUE,
                                   !.ch.bank_request[it].valid = FALSE,
                                   !.ch.bank_request[it].open_row =
                                      open_row_after_reset(br, now)]
                    ELSE LET e   == PktEntry(ch, br.pkt)
                             ch1 == [ch EXCEPT
                                       !.bank_request[it].open_row =
                                          open_row_after_reset(br, now),
                                       !.bank_request[it].valid = FALSE]
                             ch2 == SetSlot(ch1, br.pkt.q, br.pkt.idx,
                                            [e EXCEPT !.scheduled = FALSE, !.ready_time = now])
                         IN  reset_scheduled_from([r EXCEPT !.ch = ch2], it + 1, now)
             ELSE reset_scheduled_from(r, it + 1, now)

\* A turn-around counted from the switch even when a request is on the bus.
dbus_cycle_from_now(ch, now) == now + cfg.turnaround

\* Lines 172-177: add data bus turn-around time.
dbus_cycle_after_switch(ch, now) ==
  IF ch.active_request # BankEnd(ch)
    THEN ch.bank_request[ch.active_request].ready_time + cfg.turnaround
    ELSE now + cfg.turnaround

\* A switch that leaves the scheduled bank requests as they are.
swap_write_mode_keeps_scheduled(ch, now) ==
  IF swap_condition(ch)
    THEN [ch    |-> [ch EXCEPT !.dbus_cycle_available = dbus_cycle_after_switch(ch, now),
                               !.write_mode = ~ch.write_mode],
          out   |-> <<>>,
          threw |-> FALSE]
    ELSE [ch |-> ch, out |-> <<>>, threw |-> FALSE]

swap_write_mode(ch, now) ==
  IF swap_condition(ch)
    THEN LET r == reset_scheduled_from([ch |-> ch, out |-> <<>>, threw |-> FALSE], 0, now)
         IN  IF r.threw THEN r
             ELSE [r EXCEPT
                     !.ch.dbus_cycle_available = dbus_cycle_after_switch(ch, now),
                     !.ch.write_mode = ~ch.write_mode]
    ELSE [ch |-> ch, out |-> <<>>, threw |-> FALSE]

(***************************************************************************)
(* DRAM_CHANNEL::populate_dbus                                             *)
(***************************************************************************)
\* The comparator of line 190 and std::min_element with it: the running minimum
\* is replaced by a later element the comparator puts before it.
process_before(lhs, rhs) == ~rhs.valid \/ (lhs.valid /\ lhs.ready_time < rhs.ready_time)

RECURSIVE next_process_from(_, _, _)
next_process_from(bank_request, smallest, it) ==
  IF it >= Cardinality(DOMAIN bank_request) THEN smallest
  ELSE next_process_from(bank_request,
         IF process_before(bank_request[it], bank_request[smallest]) THEN it ELSE smallest,
         it + 1)

\* A count that forgets the misses.
count_row_buffer_hits_only(st, row_buffer_hit, write_mode) ==
  IF row_buffer_hit
    THEN IF write_mode
           THEN [st EXCEPT !.WQ_ROW_BUFFER_HIT = @ + 1]
           ELSE [st EXCEPT !.RQ_ROW_BUFFER_HIT = @ + 1]
    ELSE st

\* Lines 197-207.
count_row_buffer(st, row_buffer_hit, write_mode) ==
  IF row_buffer_hit
    THEN IF write_mode
           THEN [st EXCEPT !.WQ_ROW_BUFFER_HIT = @ + 1]
           ELSE [st EXCEPT !.RQ_ROW_BUFFER_HIT = @ + 1]
    ELSE IF write_mode
           THEN [st EXCEPT !.WQ_ROW_BUFFER_MISS = @ + 1]
           ELSE [st EXCEPT !.RQ_ROW_BUFFER_MISS = @ + 1]

\* A test that forgets the request on the bus.
bus_available_ignores_active(ch, now) == ch.dbus_cycle_available <= now

\* Line 192.
bus_available(ch, now) ==
  ch.active_request = BankEnd(ch) /\ ch.dbus_cycle_available <= now

populate_dbus(ch, now) ==
  LET iter_next_process == next_process_from(ch.bank_request, 0, 1)
      br                == ch.bank_request[iter_next_process]
  IN  IF br.valid /\ br.ready_time <= now
        THEN IF bus_available(ch, now)
               THEN [ch |-> [ch EXCEPT
                       !.active_request = iter_next_process,
                       !.bank_request[iter_next_process].ready_time = now + DRAM_DBUS_RETURN_TIME,
                       !.sim_stats = count_row_buffer(@, br.row_buffer_hit, ch.write_mode)],
                     out |-> <<>>, threw |-> FALSE]
               ELSE [ch |-> [ch EXCEPT
                       !.sim_stats.dbus_cycle_congested =
                          @ + (IF ch.active_request # BankEnd(ch)
                                 THEN (ch.bank_request[ch.active_request].ready_time - now)
                                        \div cfg.clock_period
                                 ELSE (ch.dbus_cycle_available - now) \div cfg.clock_period),
                       !.sim_stats.dbus_count_congested = @ + 1],
                     out |-> <<>>, threw |-> FALSE]
        ELSE [ch |-> ch, out |-> <<>>, threw |-> FALSE]

(***************************************************************************)
(* DRAM_CHANNEL::schedule_packets                                          *)
(***************************************************************************)
\* The comparator next_schedule of lines 238-251.
\* A comparator that orders the unscheduled entries by ready_time alone.
next_schedule_by_time(ch, lhs, rhs) ==
  IF ~(rhs.has_value /\ ~rhs.scheduled) THEN TRUE
  ELSE IF ~(lhs.has_value /\ ~lhs.scheduled) THEN FALSE
  ELSE lhs.ready_time <= rhs.ready_time

next_schedule(ch, lhs, rhs) ==
  IF ~(rhs.has_value /\ ~rhs.scheduled) THEN TRUE
  ELSE IF ~(lhs.has_value /\ ~lhs.scheduled) THEN FALSE
  ELSE LET lop_idx == bank_request_index(lhs.address)
           rop_idx == bank_request_index(rhs.address)
           rready  == ~ch.bank_request[rop_idx].valid
           lready  == ~ch.bank_request[lop_idx].valid
       IN  IF rready /\ lready THEN lhs.ready_time <= rhs.ready_time ELSE lready

RECURSIVE next_schedule_from(_, _, _, _)
next_schedule_from(ch, Q, smallest, it) ==
  IF it > Len(Q) THEN smallest
  ELSE next_schedule_from(ch, Q,
         IF next_schedule(ch, Q[it], Q[smallest]) THEN it ELSE smallest, it + 1)

\* A bank request whose miss latency forgets tRCD.
new_bank_request_no_tRCD(row_buffer_hit, op_row, now, pkt) ==
  [valid          |-> TRUE,
   row_buffer_hit |-> row_buffer_hit,
   open_row       |-> op_row,
   ready_time     |-> now + cfg.tCAS + (IF row_buffer_hit THEN 0 ELSE cfg.tRP),
   pkt            |-> pkt]

\* Lines 267-268: the bank request installed for a scheduled entry.
new_bank_request(row_buffer_hit, op_row, now, pkt) ==
  [valid          |-> TRUE,
   row_buffer_hit |-> row_buffer_hit,
   open_row       |-> op_row,
   ready_time     |-> now + cfg.tCAS + (IF row_buffer_hit THEN 0 ELSE cfg.tRP + cfg.tRCD),
   pkt            |-> pkt]

\* Lines 252-277 for the queue q.
schedule_from(ch, q, now) ==
  LET Q  == QueueOf(ch, q)
      iter_next_schedule == next_schedule_from(ch, Q, 1, 2)
      e  == Q[iter_next_schedule]
  IN  IF e.has_value /\ e.ready_time <= now
        THEN LET op_row == get_row(e.address)
                 op_idx == bank_request_index(e.address)
             IN  IF ~ch.bank_request[op_idx].valid
                   THEN LET row_buffer_hit == ch.bank_request[op_idx].open_row # NoRow
                                              /\ ch.bank_request[op_idx].open_row = op_row
                            ch1 == [ch EXCEPT !.bank_request[op_idx] =
                                      new_bank_request(row_buffer_hit, op_row, now,
                                                       [q |-> q, idx |-> iter_next_schedule])]
                        IN  [ch |-> SetSlot(ch1, q, iter_next_schedule,
                                            [e EXCEPT !.scheduled = TRUE, !.ready_time = TIME_MAX]),
                             out |-> <<>>, threw |-> FALSE]
                   ELSE [ch |-> ch, out |-> <<>>, threw |-> FALSE]
        ELSE [ch |-> ch, out |-> <<>>, threw |-> FALSE]

\* A scheduler that serves both queues in one call.
schedule_packets_both_queues(ch, now) ==
  schedule_from(schedule_from(ch, "RQ", now).ch, "WQ", now)

\* Lines 253-257: the queue is chosen by write_mode.
schedule_packets(ch, now) ==
  schedule_from(ch, IF ch.write_mode THEN "WQ" ELSE "RQ", now)

(***************************************************************************)
(* MEMORY_CONTROLLER::add_rq, add_wq, initiate_requests                    *)
(***************************************************************************)
\* std::find_if_not(begin, end, has_value): the first empty slot, Len(Q) + 1 if none.
first_empty(Q) ==
  LET free == {i \in 1..Len(Q) : ~Q[i].has_value}
  IN  IF free = {} THEN Len(Q) + 1 ELSE CHOOSE i \in free : \A j \in free : i <= j

add_rq(chs, packet, ul, now) ==
  LET c     == get_channel(packet.address)
      rq_it == first_empty(chs[c].RQ)
  IN  IF rq_it # Len(chs[c].RQ) + 1
        THEN [ok |-> TRUE,
              channels |-> [chs EXCEPT ![c].RQ[rq_it] =
                 [request_type(packet) EXCEPT
                    !.forward_checked = FALSE,
                    !.ready_time = now,
                    !.packets[1].to_return =
                       IF packet.response_requested THEN <<ul>> ELSE @]]]
        ELSE [ok |-> FALSE, channels |-> chs]

\* An add_wq that refuses without counting.
add_wq_uncounted(chs, packet, now) ==
  LET c     == get_channel(packet.address)
      wq_it == first_empty(chs[c].WQ)
  IN  IF wq_it # Len(chs[c].WQ) + 1
        THEN [ok |-> TRUE,
              channels |-> [chs EXCEPT ![c].WQ[wq_it] =
                 [request_type(packet) EXCEPT !.forward_checked = FALSE, !.ready_time = now]]]
        ELSE [ok |-> FALSE, channels |-> chs]

add_wq(chs, packet, now) ==
  LET c     == get_channel(packet.address)
      wq_it == first_empty(chs[c].WQ)
  IN  IF wq_it # Len(chs[c].WQ) + 1
        THEN [ok |-> TRUE,
              channels |-> [chs EXCEPT ![c].WQ[wq_it] =
                 [request_type(packet) EXCEPT !.forward_checked = FALSE, !.ready_time = now]]]
        ELSE [ok |-> FALSE,
              channels |-> [chs EXCEPT ![c].sim_stats.WQ_FULL = @ + 1]]

\* champsim::get_span_p with the admission predicate: the packets are offered
\* from the head in order until one is refused; n is the length of the prefix
\* admitted so far.
RECURSIVE get_span_p(_, _, _, _, _, _)
get_span_p(chs, pkts, n, q, ul, now) ==
  IF n = Len(pkts) THEN [channels |-> chs, n |-> n]
  ELSE LET r == IF q = "WQ" THEN add_wq(chs, pkts[n + 1], now)
                            ELSE add_rq(chs, pkts[n + 1], ul, now)
       IN  IF r.ok THEN get_span_p(r.channels, pkts, n + 1, q, ul, now)
                   ELSE [channels |-> r.channels, n |-> n]

\* An erase that takes the refused packet along.
erase_prefix_and_next(pkts, n) == SubSeq(pkts, n + 2, Len(pkts))

\* q.erase(begin, end)
erase_prefix(pkts, n) == SubSeq(pkts, n + 1, Len(pkts))

RECURSIVE initiate_requests_from(_, _, _, _)
initiate_requests_from(chs, qs, ul, now) ==
  IF ul \notin DOMAIN qs THEN [channels |-> chs, queues |-> qs]
  ELSE LET rq == get_span_p(chs, qs[ul].RQ, 0, "RQ", ul, now)
           pq == get_span_p(rq.channels, qs[ul].PQ, 0, "PQ", ul, now)
           wq == get_span_p(pq.channels, qs[ul].WQ, 0, "WQ", ul, now)
       IN  initiate_requests_from(
             wq.channels,
             [qs EXCEPT ![ul].RQ = erase_prefix(@, rq.n),
                        ![ul].PQ = erase_prefix(@, pq.n),
                        ![ul].WQ = erase_prefix(@, wq.n)],
             ul + 1, now)

initiate_requests(chs, qs, now) == initiate_requests_from(chs, qs, 0, now)

(***************************************************************************)
(* DRAM_CHANNEL::operate and MEMORY_CONTROLLER::operate                    *)
(***************************************************************************)
\* The calls of DRAM_CHANNEL::operate (lines 90-116) in order.
StepNames ==
  <<"admitted", "warmup", "check_write_collision", "check_read_collision",
    "finish_dbus_request", "swap_write_mode", "populate_dbus", "schedule_packets">>

operate_call(k, ch, now) ==
  CASE k = 2 -> operate_warmup(ch)
    [] k = 3 -> check_write_collision(ch)
    [] k = 4 -> check_read_collision(ch)
    [] k = 5 -> finish_dbus_request(ch, now)
    [] k = 6 -> swap_write_mode(ch, now)
    [] k = 7 -> populate_dbus(ch, now)
    [] k = 8 -> schedule_packets(ch, now)

\* The state after call k, given the state r before it and the call's result s;
\* steps keeps the channel after each call and outs what each call pushed.
after_call(r, k, s) ==
  [ch    |-> s.ch,
   out   |-> r.out \o s.out,
   threw |-> s.threw,
   steps |-> [r.steps EXCEPT ![StepNames[k]] = s.ch],
   outs  |-> [r.outs EXCEPT ![StepNames[k]] = s.out]]

\* An exception thrown by a call skips the calls after it.
RECURSIVE operate_from(_, _, _)
operate_from(r, k, now) ==
  IF k > Len(StepNames) THEN r
  ELSE operate_from(
         after_call(r, k, IF r.threw THEN [ch |-> r.ch, out |-> <<>>, threw |-> TRUE]
                                     ELSE operate_call(k, r.ch, now)),
         k + 1, now)

\* DRAM_CHANNEL::operate (lines 86-119).
DRAM_CHANNEL_operate(ch, now) ==
  operate_from([ch    |-> ch,
                out   |-> <<>>,
                threw |-> FALSE,
                steps |-> [n \in {StepNames[k] : k \in 1..Len(StepNames)} |-> ch],
                outs  |-> [n \in {StepNames[k] : k \in 1..Len(StepNames)} |-> <<>>]],
               2, now)

\* Lines 79-81: the channels are operated in order; an exception ends the loop.
RECURSIVE operate_channels(_, _, _)
operate_channels(r, c, now) ==
  IF r.threw \/ c \notin DOMAIN r.channels THEN r
  ELSE LET o == DRAM_CHANNEL_operate(r.channels[c], now)
       IN  operate_channels(
             [channels |-> [r.channels EXCEPT ![c] = o.ch],
              out      |-> r.out \o o.out,
              threw    |-> o.threw,
              steps    |-> [r.steps EXCEPT ![c] = o.steps],
              outs     |-> [r.outs EXCEPT ![c] = o.outs]],
             c + 1, now)

\* The pushes onto the upstreams' returned sinks.
RECURSIVE deliver(_, _)
deliver(qs, out) ==
  IF out = <<>> THEN qs
  ELSE deliver([qs EXCEPT ![Head(out).ret].returned = Append(@, Head(out).response)], Tail(out))

operate_admitted(adm, steps, outs, now) ==
  operate_channels([channels |-> adm.channels, out |-> <<>>, threw |-> FALSE,
                    steps |-> steps, outs |-> outs], 0, now)

controller_result(adm, r) ==
  [channels |-> r.channels,
   queues   |-> deliver(adm.queues, r.out),
   threw    |-> r.threw,
   steps    |-> r.steps,
   outs     |-> r.outs,
   admitted |-> adm]

\* MEMORY_CONTROLLER::operate (lines 73-84).  steps and outs are the records of
\* the previous tick, replaced for every channel that is operated.
MEMORY_CONTROLLER_operate(chs, qs, now, steps, outs) ==
  controller_result(initiate_requests(chs, qs, now),
                    operate_admitted(initiate_requests(chs, qs, now), steps, outs, now))

(***************************************************************************)
(* Configurations and the environment.                                     *)
(***************************************************************************)
\* The asserts of DRAM_ADDRESS_MAPPING::DRAM_ADDRESS_MAPPING (lines 56-58).
constructible(c) ==
  /\ c.prefetch_size # 0
  /\ (c.channel_width * c.prefetch_size) % BLOCK_SIZE = 0

\* A small controller: 1 channel of 1 rank x 2 banks, 2 rows, one column per
\* row, 64-byte blocks; all latencies 1 clock, the bus 2 clocks.
SmallConfig ==
  [clock_period |-> 1, tRP |-> 1, tRCD |-> 1, tCAS |-> 1, turnaround |-> 2,
   channel_width |-> 32, prefetch_size |-> 2,
   channels |-> 1, banks |-> 2, ranks |-> 1, rows |-> 2, columns |-> 2,
   rq_size |-> 2, wq_size |-> 3]

\* What the upstreams offer to it.  Byte addresses 0 and 1 lie in one block
\* (row 0 of bank 0); 64 is bank 1; 128 is row 1 of bank 0.
SmallEnv ==
  [producers |-> {[ul |-> 0, q |-> "RQ", response_requested |-> TRUE, addrs |-> {0, 1, 64, 128}],
                  [ul |-> 1, q |-> "RQ", response_requested |-> TRUE, addrs |-> {0, 64}],
                  [ul |-> 0, q |-> "PQ", response_requested |-> FALSE, addrs |-> {0}],
                  [ul |-> 1, q |-> "WQ", response_requested |-> FALSE, addrs |-> {0, 1, 64, 128}]},
   upstreams    |-> 2,
   max_time     |-> MaxTime,
   max_packets  |-> MaxPackets,
   max_submit   |-> MaxSubmitTime]

\* The configuration of the end-to-end scenarios: 1 channel, 1 rank, 1 bank,
\* 64 rows, 64 columns, tRP = tRCD = tCAS = 4 clocks, an 8-clock bus.
ScenarioConfig ==
  [clock_period |-> 1, tRP |-> 4, tRCD |-> 4, tCAS |-> 4, turnaround |-> 8,
   channel_width |-> 8, prefetch_size |-> 8,
   channels |-> 1, banks |-> 1, ranks |-> 1, rows |-> 64, columns |-> 64,
   rq_size |-> 8, wq_size |-> 8]

\* Reads of one requester: 0 and 64 are two columns of row 0, 512 is row 1.
ScenarioEnv ==
  [producers |-> {[ul |-> 0, q |-> "RQ", response_requested |-> TRUE, addrs |-> {0, 64, 512}]},
   upstreams    |-> 1,
   max_time     |-> ScenarioMaxTime,
   max_packets  |-> ScenarioMaxPackets,
   max_submit   |-> ScenarioMaxSubmit]

\* Two channels with two RQ slots and one WQ slot each.  Byte addresses 0 and
\* 128 are rows 0 and 1 of channel 0; 64 is channel 1.
AdmissionConfig ==
  [clock_period |-> 1, tRP |-> 1, tRCD |-> 1, tCAS |-> 1, turnaround |-> 2,
   channel_width |-> 32, prefetch_size |-> 2,
   channels |-> 2, banks |-> 1, ranks |-> 1, rows |-> 2, columns |-> 2,
   rq_size |-> 2, wq_size |-> 1]

AdmissionEnv ==
  [producers |-> {[ul |-> 0, q |-> "RQ", response_requested |-> TRUE, addrs |-> {0, 64, 128}],
                  [ul |-> 0, q |-> "WQ", response_requested |-> FALSE, addrs |-> {0, 64, 128}],
                  [ul |-> 1, q |-> "PQ", response_requested |-> FALSE, addrs |-> {0}],
                  [ul |-> 1, q |-> "WQ", response_requested |-> FALSE, addrs |-> {64}]},
   upstreams    |-> 2,
   max_time     |-> AdmissionMaxTime,
   max_packets  |-> AdmissionMaxPackets,
   max_submit   |-> AdmissionMaxSubmit]

\* A controller in which every field of the address map is one bit wide but
\* the 6-bit offset: 2 channels x 2 ranks x 2 banks x 2 rows x 2 column groups.
CollisionConfig ==
  [clock_period |-> 1, tRP |-> 1, tRCD |-> 1, tCAS |-> 1, turnaround |-> 2,
   channel_width |-> 32, prefetch_size |-> 2,
   channels |-> 2, banks |-> 2, ranks |-> 2, rows |-> 2, columns |-> 4,
   rq_size |-> 2, wq_size |-> 3]

\* Reads of the first, second and last byte of every block of the DRAM.
CollisionEnv ==
  [producers |-> {[ul |-> 0, q |-> "RQ", response_requested |-> TRUE,
                   addrs |-> {blk * BLOCK_SIZE + o :
                                blk \in 0..((DRAM_size(CollisionConfig) \div BLOCK_SIZE) - 1),
                                o \in {0, 1, BLOCK_SIZE - 1}}]},
   upstreams    |-> 1,
   max_time     |-> CollisionMaxTime,
   max_packets  |-> CollisionMaxPackets,
   max_submit   |-> CollisionMaxSubmit]

\* Reads of the two banks from one requester and writes of two other blocks,
\* offered late enough to meet requests that are scheduled or on the bus.
SwitchEnv ==
  [producers |-> {[ul |-> 0, q |-> "RQ", response_requested |-> TRUE, addrs |-> {0, 64}],
                  [ul |-> 1, q |-> "WQ", response_requested |-> FALSE, addrs |-> {128, 64}]},
   upstreams    |-> 2,
   max_time     |-> SwitchMaxTime,
   max_packets  |-> SwitchMaxPackets,
   max_submit   |-> SwitchMaxSubmit]

\* The small controller with a single WQ slot.
SingleWriteSlotConfig == [SmallConfig EXCEPT !.wq_size = 1]

WarmupEnv ==
  [producers |-> {[ul |-> 0, q |-> "RQ", response_requested |-> TRUE, addrs |-> {0, 64}],
                  [ul |-> 1, q |-> "RQ", response_requested |-> TRUE, addrs |-> {0, 128}],
                  [ul |-> 0, q |-> "PQ", response_requested |-> FALSE, addrs |-> {64}],
                  [ul |-> 1, q |-> "WQ", response_requested |-> FALSE, addrs |-> {0, 64}]},
   upstreams    |-> 2,
   max_time     |-> WarmupMaxTime,
   max_packets  |-> WarmupMaxPackets,
   max_submit   |-> WarmupMaxSubmit]

\* Reads and writes of three blocks, offered at any time of a run without end.
DrainEnv ==
  [producers |-> {[ul |-> 0, q |-> "RQ", response_requested |-> TRUE, addrs |-> {0, 64, 128}],
                  [ul |-> 1, q |-> "WQ", response_requested |-> FALSE, addrs |-> {0, 64, 128}]},
   upstreams    |-> 2,
   max_time     |-> DrainEpoch,
   max_packets  |-> DrainMaxPackets,
   max_submit   |-> DrainEpoch]

Configure(c, env) == [slicer |-> make_slicer(c)] @@ c @@ env

(***************************************************************************)
(* Observations kept in hist.                                              *)
(***************************************************************************)
Slots(ch) == ({"RQ"} \X DOMAIN ch.RQ) \cup ({"WQ"} \X DOMAIN ch.WQ)

\* The queue entries whose scheduled flag is false in A and true in B.
NewlyScheduled(A, B) ==
  {s \in Slots(A) :
     /\ QueueOf(A, s[1])[s[2]].has_value /\ ~QueueOf(A, s[1])[s[2]].scheduled
     /\ QueueOf(B, s[1])[s[2]].has_value /\ QueueOf(B, s[1])[s[2]].scheduled}

\* Whether a bank request has become the active one between A and B.
NewlyActive(A, B) ==
  B.active_request # BankEnd(B) /\ B.active_request # A.active_request

RECURSIVE SchedulingEvents(_, _)
SchedulingEvents(st, k) ==
  IF k >= Len(StepNames) THEN 0
  ELSE Cardinality(NewlyScheduled(st[StepNames[k]], st[StepNames[k + 1]]))
         + SchedulingEvents(st, k + 1)

RECURSIVE BusPromotions(_, _)
BusPromotions(st, k) ==
  IF k >= Len(StepNames) THEN 0
  ELSE (IF NewlyActive(st[StepNames[k]], st[StepNames[k + 1]]) THEN 1 ELSE 0)
         + BusPromotions(st, k + 1)

InitialSteps(ch) == [n \in {StepNames[k] : k \in 1..Len(StepNames)} |-> ch]

InitialOuts == [n \in {StepNames[k] : k \in 1..Len(StepNames)} |-> <<>>]

\* The reads with response_requested among the first n packets of a queue.
Requested(pkts, n) == Cardinality({i \in 1..n : pkts[i].response_requested})

Observe(h, r, chs, qs, now) ==
  [time     |-> now,
   warmup   |-> warmup,
   before   |-> chs,
   left     |-> [u \in DOMAIN qs |->
                   [q \in {"RQ", "PQ", "WQ"} |-> r.admitted.queues[u][q]]],
   steps    |-> r.steps,
   outs     |-> r.outs,
   accepted |-> [u \in DOMAIN qs |->
                   h.accepted[u]
                   + Requested(qs[u].RQ, Len(qs[u].RQ) - Len(r.admitted.queues[u].RQ))
                   + Requested(qs[u].PQ, Len(qs[u].PQ) - Len(r.admitted.queues[u].PQ))],
   sched_events |-> [c \in DOMAIN chs |-> h.sched_events[c] + SchedulingEvents(r.steps[c], 1)],
   promotions   |-> [c \in DOMAIN chs |-> h.promotions[c] + BusPromotions(r.steps[c], 1)],
   born     |-> [c \in DOMAIN chs |->
                   [s \in Slots(chs[c]) |->
                      IF ~QueueOf(chs[c], s[1])[s[2]].has_value
                         /\ QueueOf(r.admitted.channels[c], s[1])[s[2]].has_value
                        THEN now ELSE h.born[c][s]]],
   sched_at |-> [c \in DOMAIN chs |->
                   [b \in DOMAIN chs[c].bank_request |->
                      IF ~r.steps[c].populate_dbus.bank_request[b].valid
                         /\ r.steps[c].schedule_packets.bank_request[b].valid
                        THEN [time |-> now,
                              prev_open_row |-> r.steps[c].populate_dbus.bank_request[b].open_row]
                        ELSE h.sched_at[c][b]]],
   bus      |-> [c \in DOMAIN chs |->
                   LET st   == r.steps[c]
                       fin  == st.check_read_collision.active_request # BankEnd(chs[c])
                               /\ st.finish_dbus_request.active_request = BankEnd(chs[c])
                       b1   == IF fin THEN [start |-> -1, last_start |-> h.bus[c].start,
                                            last_end |-> now]
                                      ELSE h.bus[c]
                   IN  IF NewlyActive(st.swap_write_mode, st.populate_dbus)
                         THEN [b1 EXCEPT !.start = now] ELSE b1],
   done     |-> [c \in DOMAIN chs |->
                   LET st  == r.steps[c]
                       a   == st.check_read_collision.active_request
                   IN  IF a # BankEnd(chs[c]) /\ st.finish_dbus_request.active_request = BankEnd(chs[c])
                         THEN Append(h.done[c],
                                [q            |-> st.check_read_collision.bank_request[a].pkt.q,
                                 address      |-> PktEntry(st.check_read_collision,
                                                    st.check_read_collision.bank_request[a].pkt).address,
                                 hit          |-> st.check_read_collision.bank_request[a].row_buffer_hit,
                                 scheduled_at |-> h.sched_at[c][a].time,
                                 promoted_at  |-> h.bus[c].start,
                                 finished_at  |-> now])
                         ELSE h.done[c]]]

InitialHist(chs, qs) ==
  [time     |-> -1,
   warmup   |-> FALSE,
   before   |-> chs,
   left     |-> [u \in DOMAIN qs |-> [q \in {"RQ", "PQ", "WQ"} |-> <<>>]],
   steps    |-> [c \in DOMAIN chs |-> InitialSteps(chs[c])],
   outs     |-> [c \in DOMAIN chs |-> InitialOuts],
   accepted |-> [u \in DOMAIN qs |-> 0],
   sched_events |-> [c \in DOMAIN chs |-> 0],
   promotions   |-> [c \in DOMAIN chs |-> 0],
   born     |-> [c \in DOMAIN chs |-> [s \in Slots(chs[c]) |-> -1]],
   sched_at |-> [c \in DOMAIN chs |->
                   [b \in DOMAIN chs[c].bank_request |-> [time |-> -1, prev_open_row |-> NoRow]]],
   bus      |-> [c \in DOMAIN chs |-> [start |-> -1, last_start |-> -1, last_end |-> -1]],
   done     |-> [c \in DOMAIN chs |-> <<>>]]

(***************************************************************************)
(* The state machine.                                                      *)
(***************************************************************************)
InitWith(c, env, w) ==
  /\ constructible(c)
  /\ cfg = Configure(c, env)
  /\ current_time = 0
  /\ warmup = w
  /\ channels = [i \in 0..(Pow2(lg2(c.channels)) - 1) |-> NewChannel(c)]
  /\ queues = [u \in 0..(env.upstreams - 1) |->
                 [RQ |-> <<>>, PQ |-> <<>>, WQ |-> <<>>, returned |-> <<>>]]
  /\ pc = "running"
  /\ submitted = 0
  /\ hist = InitialHist([i \in 0..(Pow2(lg2(c.channels)) - 1) |-> NewChannel(c)],
                        [u \in 0..(env.upstreams - 1) |-> 0])

Init == InitWith(SmallConfig, SmallEnv, FALSE)

\* An upstream cache puts a packet at the back of one of its queues.  Writes
\* carry data 1 and reads data 0; the packet's instruction dependency is its
\* number in the run.
Submit ==
  /\ pc = "running"
  /\ submitted < cfg.max_packets
  /\ current_time <= cfg.max_submit
  /\ \E p \in cfg.producers : \E a \in p.addrs :
       LET packet == [address            |-> a,
                      data               |-> IF p.q = "WQ" THEN 1 ELSE 0,
                      instr_depend_on_me |-> <<submitted + 1>>,
                      response_requested |-> p.response_requested]
       IN  queues' = [queues EXCEPT ![p.ul][p.q] = Append(@, packet)]
  /\ submitted' = submitted + 1
  /\ UNCHANGED <<cfg, current_time, warmup, channels, pc, hist>>

\* One call of MEMORY_CONTROLLER::operate by the simulation driver, after which
\* the clock advances by one period.
Operate ==
  /\ pc = "running"
  /\ current_time < cfg.max_time
  /\ \E r \in {MEMORY_CONTROLLER_operate(channels, queues, current_time, hist.steps, hist.outs)} :
         /\ channels' = r.channels
         /\ queues' = r.queues
         /\ pc' = IF r.threw THEN "terminated" ELSE "running"
         /\ hist' = Observe(hist, r, channels, queues, current_time)
  /\ current_time' = current_time + 1
  /\ UNCHANGED <<cfg, warmup, submitted>>

Next == Submit \/ Operate

Spec == Init /\ [][Next]_vars

\* The end-to-end scenario configuration with reads only.
ScenarioInit == InitWith(ScenarioConfig, ScenarioEnv, FALSE)

\* The small controller and the scenario controller side by side.
SpecTiming == (Init \/ ScenarioInit) /\ [][Next]_vars

\* MEMORY_CONTROLLER::begin_phase (lines 300-316) at the end of the warmup
\* phase: every channel gets fresh statistics and the new warmup flag.
BeginPhase ==
  /\ pc = "running"
  /\ warmup
  /\ warmup' = FALSE
  /\ channels' = [c \in DOMAIN channels |-> [channels[c] EXCEPT !.sim_stats = NewStats]]
  /\ UNCHANGED <<cfg, current_time, queues, pc, submitted, hist>>

NextPhased == Submit \/ Operate \/ BeginPhase

\* Runs that start in the warmup phase, of the small controller and of the one
\* with a single WQ slot.
WarmupInit ==
  \/ InitWith(SmallConfig, WarmupEnv, TRUE)
  \/ InitWith(SingleWriteSlotConfig, WarmupEnv, TRUE)

SpecWarmup == WarmupInit /\ [][NextPhased]_vars

\* The controller with all address fields, offered any block of its DRAM.
CollisionInit == InitWith(CollisionConfig, CollisionEnv, FALSE)

SpecCollision == CollisionInit /\ [][Next]_vars

\* The small controller under reads and writes that arrive over several ticks.
SwitchInit == InitWith(SmallConfig, SwitchEnv, FALSE)

SpecSwitch == SwitchInit /\ [][Next]_vars

\* The small controller under both of its environments.
SpecLinkage == (Init \/ SwitchInit) /\ [][Next]_vars

\* The code compares the times it stores with current_time and with each
\* other and never uses their absolute value, so a run without end is kept
\* finite by counting time from the start of the current epoch of DrainEpoch
\* ticks: at the end of an epoch every stored time moves back by DrainEpoch.
\* The maximal time_point of a scheduled entry stays what it is.
shift_time(t, d) == IF t = TIME_MAX THEN t ELSE t - d

shift_queue(Q, d) ==
  [i \in DOMAIN Q |-> IF Q[i].has_value THEN [Q[i] EXCEPT !.ready_time = shift_time(@, d)]
                                        ELSE Q[i]]

\* Times the code cannot tell apart are kept as one: the ready_time of a bank
\* request that is not valid is never read (lines 125, 159-161, 190-191), and
\* dbus_cycle_available is only compared with current_time (line 192) or, when
\* later than it, subtracted from (line 215).
relative_times(ch, d, now) ==
  [ch EXCEPT
     !.RQ = shift_queue(@, d),
     !.WQ = shift_queue(@, d),
     !.bank_request = [b \in DOMAIN @ |->
                         [@[b] EXCEPT !.ready_time = IF ch.bank_request[b].valid THEN @ - d ELSE 0]],
     !.dbus_cycle_available = IF @ - d <= now THEN now ELSE @ - d]

\* One call of MEMORY_CONTROLLER::operate in a run without end.  The
\* observations of hist are not kept in such a run.
OperateForever ==
  /\ pc = "running"
  /\ \E r \in {MEMORY_CONTROLLER_operate(channels, queues, current_time, hist.steps, hist.outs)} :
       \E d \in {IF current_time + 1 = DrainEpoch THEN DrainEpoch ELSE 0} :
         /\ channels' = [c \in DOMAIN r.channels |->
                           relative_times(r.channels[c], d, current_time + 1 - d)]
         /\ queues' = r.queues
         /\ pc' = IF r.threw THEN "terminated" ELSE "running"
  /\ current_time' = (current_time + 1) % DrainEpoch
  /\ UNCHANGED <<cfg, warmup, submitted, hist>>

NextForever == Submit \/ OperateForever

\* The clock's part of OperateForever: the steps of NextForever that change
\* current_time are the OperateForever steps, and one is possible whenever
\* pc = "running".
Tick == pc = "running" /\ current_time' = (current_time + 1) % DrainEpoch

\* The small controller with three WQ slots or one, under a driver that calls
\* operate() in every clock period for as long as the simulation runs.
DrainInit ==
  \/ InitWith(SmallConfig, DrainEnv, FALSE)
  \/ InitWith(SingleWriteSlotConfig, DrainEnv, FALSE)

SpecDrain == DrainInit /\ [][NextForever]_vars /\ WF_current_time(Tick)

\* The two-channel controller with short queues.
AdmissionInit == InitWith(AdmissionConfig, AdmissionEnv, FALSE)

SpecAdmission == AdmissionInit /\ [][Next]_vars

(***************************************************************************)
(* Properties.                                                             *)
(***************************************************************************)
Channels == DOMAIN channels
Upstreams == DOMAIN queues

\* Two addresses agree on every field of the address map except the offset.
same_block(a, b) ==
  /\ get_channel(a) = get_channel(b)
  /\ get_rank(a) = get_rank(b)
  /\ get_bank(a) = get_bank(b)
  /\ get_row(a) = get_row(b)
  /\ get_column(a) = get_column(b)

Present(Q) == {i \in DOMAIN Q : Q[i].has_value}

\* The channel c after the named call of the latest tick.
After(c, call) == hist.steps[c][call]

Ticked == hist.time >= 0

\* Upstream u has a read that asked for a response in some channel's RQ.
HeldRead(u) ==
  \E c \in Channels : \E i \in Present(channels[c].RQ) :
    \E k \in 1..Len(channels[c].RQ[i].packets) :
      \E m \in 1..Len(channels[c].RQ[i].packets[k].to_return) :
        channels[c].RQ[i].packets[k].to_return[m] = u

\* C1: response count conservation.  For every upstream, the responses pushed
\* to its returned sink never outnumber the reads add_rq accepted from it with
\* response_requested set, and are exactly as many once no channel's RQ holds a
\* read of that upstream.
C1_ResponseCountConservation ==
  \A u \in Upstreams :
    /\ Len(queues[u].returned) <= hist.accepted[u]
    /\ ~HeldRead(u) => Len(queues[u].returned) = hist.accepted[u]

\* C2 as stated: after check_read_collision has run in a tick, no present RQ
\* entry shares a block with a present WQ entry of the same channel.
C2_NoReadSharesBlockWithWrite ==
  \A c \in Channels :
    LET ch == After(c, "check_read_collision")
    IN  \A i \in Present(ch.RQ), j \in Present(ch.WQ) :
          ~same_block(ch.RQ[i].address, ch.WQ[j].address)

\* C2 amended: after check_read_collision has run in a tick, a present RQ entry
\* shares a block with a present WQ entry only when the read was admitted in an
\* earlier tick than the write; every present RQ entry is forward_checked.
C2_ReadSharesBlockOnlyWithLaterWrite ==
  \A c \in Channels :
    LET ch == After(c, "check_read_collision")
    IN  \A i \in Present(ch.RQ) :
          /\ ch.RQ[i].forward_checked
          /\ \A j \in Present(ch.WQ) :
               same_block(ch.RQ[i].address, ch.WQ[j].address)
                 => hist.born[c][<<"RQ", i>>] < hist.born[c][<<"WQ", j>>]

\* A pass that met a not-yet-checked read of a block held in WQ, in a channel
\* whose RQ also keeps an older read of a block written later.
C2_Witness ==
  \E c \in Channels :
    LET pre  == After(c, "check_write_collision")
        post == After(c, "check_read_collision")
    IN  /\ \E i \in Present(pre.RQ), j \in Present(pre.WQ) :
             ~pre.RQ[i].forward_checked /\ same_block(pre.RQ[i].address, pre.WQ[j].address)
        /\ \E i \in Present(post.RQ), j \in Present(post.WQ) :
             same_block(post.RQ[i].address, post.WQ[j].address)

\* C3: after check_write_collision has run in a tick no two present WQ entries
\* of a channel have the same block.  A not-yet-checked entry is dropped when
\* another entry of its block is present when the pass reaches it (a lower slot
\* as the pass left it, a higher slot as the pass found it) and is marked
\* forward_checked otherwise; a forward_checked entry is left as it is.
C3_WriteCollision ==
  \A c \in Channels :
    LET pre  == After(c, "warmup").WQ
        post == After(c, "check_write_collision").WQ
    IN  /\ \A i, j \in Present(post) :
             i # j => ~same_block(post[i].address, post[j].address)
        /\ \A i \in DOMAIN pre :
             IF pre[i].has_value /\ ~pre[i].forward_checked
               THEN IF \/ \E j \in Present(post) : j < i /\ same_block(pre[j].address, pre[i].address)
                       \/ \E j \in Present(pre) : j > i /\ same_block(pre[j].address, pre[i].address)
                      THEN post[i] = EmptySlot
                      ELSE post[i] = [pre[i] EXCEPT !.forward_checked = TRUE]
               ELSE post[i] = pre[i]

\* A pass that dropped a new write colliding with a checked one, and a pass that
\* dropped one of two new writes of a block.
C3_Witness ==
  \E c \in Channels :
    LET pre  == After(c, "warmup").WQ
        post == After(c, "check_write_collision").WQ
    IN  \E i, j \in Present(pre) :
          /\ i # j
          /\ ~pre[i].forward_checked
          /\ same_block(pre[i].address, pre[j].address)
          /\ pre[i].address # pre[j].address
          /\ ~post[i].has_value
          /\ post[j].has_value

RowBufferCounters ==
  {"RQ_ROW_BUFFER_HIT", "RQ_ROW_BUFFER_MISS", "WQ_ROW_BUFFER_HIT", "WQ_ROW_BUFFER_MISS"}

RowBufferCount(ch) ==
  ch.sim_stats.RQ_ROW_BUFFER_HIT + ch.sim_stats.RQ_ROW_BUFFER_MISS
    + ch.sim_stats.WQ_ROW_BUFFER_HIT + ch.sim_stats.WQ_ROW_BUFFER_MISS

CounterFor(q, hit) ==
  IF q = "RQ" THEN (IF hit THEN "RQ_ROW_BUFFER_HIT" ELSE "RQ_ROW_BUFFER_MISS")
              ELSE (IF hit THEN "WQ_ROW_BUFFER_HIT" ELSE "WQ_ROW_BUFFER_MISS")

\* The bank requests that are valid and not on the bus.
Pending(ch) ==
  {b \in DOMAIN ch.bank_request : ch.bank_request[b].valid /\ b # ch.active_request}

\* C4 as stated: the sum of the four row-buffer counters of a channel equals
\* the number of its scheduling events.
C4_CountersEqualSchedulingEvents ==
  \A c \in Channels : RowBufferCount(channels[c]) = hist.sched_events[c]

\* C4 amended: the four row-buffer counters change only in populate_dbus, when
\* a bank request is moved onto the bus: exactly one of them goes up by one,
\* chosen by the request's queue and by the hit or miss found against the
\* bank's open row when the request was scheduled.  Their sum equals the number
\* of bus promotions and never exceeds the number of scheduling events.
C4_CountersCountBusPromotions ==
  \A c \in Channels :
    /\ RowBufferCount(channels[c]) = hist.promotions[c]
    /\ hist.promotions[c] <= hist.sched_events[c]
    /\ \A k \in 1..(Len(StepNames) - 1) :
         LET A == hist.steps[c][StepNames[k]]
             B == hist.steps[c][StepNames[k + 1]]
         IN  IF NewlyActive(A, B)
               THEN LET b  == B.active_request
                        br == B.bank_request[b]
                    IN  /\ StepNames[k + 1] = "populate_dbus"
                        /\ br.row_buffer_hit
                             <=> (hist.sched_at[c][b].prev_open_row
                                    = get_row(PktEntry(B, br.pkt).address))
                        /\ \A m \in RowBufferCounters :
                             B.sim_stats[m] = A.sim_stats[m]
                               + (IF m = CounterFor(br.pkt.q, br.row_buffer_hit) THEN 1 ELSE 0)
               ELSE \A m \in RowBufferCounters : B.sim_stats[m] = A.sim_stats[m]

\* A channel that has counted a bus promotion and has had a scheduling event
\* undone by a mode switch.
C4_Witness ==
  \E c \in Channels :
    /\ RowBufferCount(channels[c]) >= 1
    /\ hist.sched_events[c]
         > hist.promotions[c] + Cardinality(Pending(channels[c]))

\* C5: in every tick of every channel at most one queue entry goes from not
\* scheduled to scheduled, and only in schedule_packets; at most one bank
\* request becomes the active one; the request that becomes active was
\* scheduled in an earlier tick and is not the one scheduled in this tick.
C5_PerTickCaps ==
  \A c \in Channels :
    LET st == hist.steps[c]
    IN  /\ SchedulingEvents(st, 1) <= 1
        /\ SchedulingEvents(st, 1)
             = Cardinality(NewlyScheduled(st.populate_dbus, st.schedule_packets))
        /\ BusPromotions(st, 1) <= 1
        /\ NewlyActive(st.swap_write_mode, st.populate_dbus) =>
             LET b == st.populate_dbus.active_request
             IN  /\ hist.sched_at[c][b].time >= 0
                 /\ hist.sched_at[c][b].time < hist.time
                 /\ \A s \in NewlyScheduled(st.populate_dbus, st.schedule_packets) :
                      <<st.populate_dbus.bank_request[b].pkt.q,
                        st.populate_dbus.bank_request[b].pkt.idx>> # s

\* A tick in which one entry was scheduled and another request went onto the bus.
C5_Witness ==
  \E c \in Channels :
    /\ SchedulingEvents(hist.steps[c], 1) = 1
    /\ BusPromotions(hist.steps[c], 1) = 1

\* C6: a bank request becomes active only in populate_dbus of a tick in which
\* no request is active and dbus_cycle_available <= current_time; the active
\* request is completed no earlier than DRAM_DBUS_RETURN_TIME after it became
\* active, and the next transfer of the channel starts no earlier than the
\* completion of the one before it.
C6_BusExclusivity ==
  \A c \in Channels :
    LET st == hist.steps[c]
    IN  /\ \A k \in 1..(Len(StepNames) - 1) :
             NewlyActive(st[StepNames[k]], st[StepNames[k + 1]]) =>
               /\ StepNames[k + 1] = "populate_dbus"
               /\ st[StepNames[k]].active_request = BankEnd(st[StepNames[k]])
               /\ st[StepNames[k]].dbus_cycle_available <= hist.time
        /\ channels[c].active_request # BankEnd(channels[c]) =>
             /\ hist.bus[c].start >= 0
             /\ channels[c].bank_request[channels[c].active_request].valid
             /\ channels[c].bank_request[channels[c].active_request].ready_time
                  = hist.bus[c].start + DRAM_DBUS_RETURN_TIME
        /\ hist.bus[c].last_end >= 0 =>
             /\ hist.bus[c].last_start >= 0
             /\ hist.bus[c].last_end >= hist.bus[c].last_start + DRAM_DBUS_RETURN_TIME
        /\ (hist.bus[c].last_end >= 0 /\ hist.bus[c].start >= 0) =>
             hist.bus[c].start >= hist.bus[c].last_end

\* A channel with a transfer on the bus after an earlier one has completed,
\* while another bank request waits for the bus.
C6_Witness ==
  \E c \in Channels :
    /\ hist.bus[c].last_end >= 0
    /\ hist.bus[c].start >= 0
    /\ Pending(channels[c]) # {}

SeqSet(q) == {q[k] : k \in 1..Len(q)}

\* The return sinks and the dependencies of a queue entry.
Sinks(e) == e.packets[1].to_return
Deps(e) == e.packets[1].instr_depend_on_me

\* No dependency of a read appears in two responses of one sink.
NoReadAnsweredTwice ==
  \A u \in Upstreams :
    \A m, n \in 1..Len(queues[u].returned) :
      m < n => SeqSet(queues[u].returned[m].instr_depend_on_me)
                 \cap SeqSet(queues[u].returned[n].instr_depend_on_me) = {}

\* The not-yet-checked reads whose block a present WQ entry holds.
Forwarded(ch) ==
  {i \in Present(ch.RQ) :
     /\ ~ch.RQ[i].forward_checked
     /\ \E j \in Present(ch.WQ) : same_block(ch.RQ[i].address, ch.WQ[j].address)}

\* C7: write-to-read forwarding.  For every not-yet-checked RQ entry whose
\* block a present WQ entry holds, check_read_collision pushes exactly one
\* response to each return sink of the read, with the read's address and
\* dependencies and the write's data, and pushes nothing else; it empties the
\* read's slot and leaves WQ as it was.  The read was not scheduled and no bank
\* request refers to it, and no read is ever answered twice to one sink.
C7_WriteToReadForwarding ==
  \A c \in Channels :
    LET pre  == After(c, "check_write_collision")
        post == After(c, "check_read_collision")
        out  == hist.outs[c].check_read_collision
    IN  /\ post.WQ = pre.WQ
        /\ \A i \in Forwarded(pre) :
             /\ post.RQ[i] = EmptySlot
             /\ ~pre.RQ[i].scheduled
             /\ \A b \in DOMAIN pre.bank_request :
                  pre.bank_request[b].valid => pre.bank_request[b].pkt # [q |-> "RQ", idx |-> i]
             /\ \A m \in 1..Len(Sinks(pre.RQ[i])) :
                  /\ Cardinality({n \in 1..Len(out) :
                        /\ out[n].ret = Sinks(pre.RQ[i])[m]
                        /\ out[n].response.instr_depend_on_me = Deps(pre.RQ[i])}) = 1
                  /\ \A j \in Present(pre.WQ) :
                       same_block(pre.RQ[i].address, pre.WQ[j].address) =>
                         [ret |-> Sinks(pre.RQ[i])[m],
                          response |-> [address |-> pre.RQ[i].address,
                                        data    |-> pre.WQ[j].packets[1].data,
                                        instr_depend_on_me |-> Deps(pre.RQ[i])]]
                           \in SeqSet(out)
        /\ \A n \in 1..Len(out) :
             \E i \in Forwarded(pre) :
               /\ out[n].ret \in SeqSet(Sinks(pre.RQ[i]))
               /\ out[n].response.instr_depend_on_me = Deps(pre.RQ[i])
        /\ NoReadAnsweredTwice

\* A pass that forwarded a write to a read that has a return sink.
C7_Witness ==
  \E c \in Channels :
    /\ Forwarded(After(c, "check_write_collision")) # {}
    /\ hist.outs[c].check_read_collision # <<>>

C9_ModeSwitchCondition ==
  \A c \in Channels :
    LET pre  == After(c, "finish_dbus_request")
        post == After(c, "swap_write_mode")
        HIGH == (Len(pre.WQ) * 7) \div 8
        LOW  == (Len(pre.WQ) * 6) \div 8
        wq   == Cardinality(Present(pre.WQ))
        rq   == Cardinality(Present(pre.RQ))
        cond == \/ ~pre.write_mode /\ (wq >= HIGH \/ (rq = 0 /\ wq # 0))
                \/ pre.write_mode /\ (wq = 0 \/ (rq # 0 /\ wq < LOW))
    IN  /\ (post.write_mode # pre.write_mode) <=> cond
        /\ ~cond => /\ post.write_mode = pre.write_mode
                    /\ post.dbus_cycle_available = pre.dbus_cycle_available
                    /\ post.bank_request = pre.bank_request

\* A tick that left write mode below the low watermark with a read waiting,
\* in a run that had entered write mode.
C9_Witness ==
  \E c \in Channels :
    LET pre  == After(c, "finish_dbus_request")
        post == After(c, "swap_write_mode")
    IN  /\ pre.write_mode
        /\ ~post.write_mode
        /\ Present(pre.RQ) # {}
        /\ Present(pre.WQ) # {}

\* The configuration of the timing scenario.
ScenarioTiming ==
  /\ Cardinality(DOMAIN channels[0].bank_request) = 1
  /\ cfg.tRP = 4 /\ cfg.tRCD = 4 /\ cfg.tCAS = 4
  /\ DRAM_DBUS_RETURN_TIME = 8

\* C10: a request scheduled at time t onto a free bank gets bank ready_time
\* t + tCAS when the bank's open_row is the request's row and t + tRP + tRCD + tCAS
\* otherwise, row_buffer_hit says which, and open_row becomes the request's
\* row; finish_dbus_request leaves every open_row as it was.  With 1 bank,
\* tRP = tRCD = tCAS = 4 and a bus time of 8, reads only: every miss is answered
\* 20 ticks after it was scheduled and every hit 12 ticks after; when a read
\* and then a read of another column of its row have been answered and RQ is
\* empty, the first was a miss, the second a hit, and RQ_ROW_BUFFER_MISS = 1
\* and RQ_ROW_BUFFER_HIT = 1.
C10_RowBufferTiming ==
  \A c \in Channels :
    LET pre  == After(c, "populate_dbus")
        post == After(c, "schedule_packets")
        done == hist.done[c]
    IN  /\ \A b \in DOMAIN pre.bank_request :
             (~pre.bank_request[b].valid /\ post.bank_request[b].valid) =>
               LET br  == post.bank_request[b]
                   row == get_row(PktEntry(post, br.pkt).address)
                   hit == pre.bank_request[b].open_row = row
               IN  /\ br.row_buffer_hit = hit
                   /\ br.open_row = row
                   /\ br.ready_time
                        = hist.time + (IF hit THEN cfg.tCAS
                                              ELSE cfg.tRP + cfg.tRCD + cfg.tCAS)
        /\ \A b \in DOMAIN pre.bank_request :
             After(c, "finish_dbus_request").bank_request[b].open_row
               = After(c, "check_read_collision").bank_request[b].open_row
        /\ ScenarioTiming =>
             /\ \A n \in 1..Len(done) :
                  done[n].finished_at - done[n].scheduled_at
                    = (IF done[n].hit THEN 12 ELSE 20)
             /\ ( /\ Len(done) = 2
                  /\ get_row(done[1].address) = get_row(done[2].address)
                  /\ get_column(done[1].address) # get_column(done[2].address)
                  /\ Present(channels[c].RQ) = {} )
                => /\ ~done[1].hit
                   /\ done[2].hit
                   /\ channels[c].sim_stats.RQ_ROW_BUFFER_MISS = 1
                   /\ channels[c].sim_stats.RQ_ROW_BUFFER_HIT = 1

\* The scenario run to its end: a read answered 20 ticks after it was scheduled
\* and a read of another column of its row answered 12 ticks after.
C10_Witness ==
  /\ ScenarioTiming
  /\ \E c \in Channels :
       LET done == hist.done[c]
       IN  /\ Len(done) = 2
           /\ get_row(done[1].address) = get_row(done[2].address)
           /\ get_column(done[1].address) # get_column(done[2].address)
           /\ done[1].finished_at - done[1].scheduled_at = 20
           /\ done[2].finished_at - done[2].scheduled_at = 12
           /\ done[2].scheduled_at >= done[1].finished_at
           /\ channels[c].sim_stats.RQ_ROW_BUFFER_MISS = 1
           /\ channels[c].sim_stats.RQ_ROW_BUFFER_HIT = 1
           /\ Len(queues[0].returned) = 2

\* A step of the state machine that is a tick.
IsTick == current_time' = current_time + 1

Full(Q) == Present(Q) = DOMAIN Q

\* All of chs2 equals chs1 except channel c, which may differ in the fields F.
SameExcept(chs1, chs2, c, F) ==
  /\ DOMAIN chs2 = DOMAIN chs1
  /\ \A d \in DOMAIN chs1 :
       IF d = c
         THEN \A f \in (DOMAIN chs1[d]) \ F : chs2[d][f] = chs1[d][f]
         ELSE chs2[d] = chs1[d]

\* One empty slot of Q1 holds a new entry for the packet in Q2 and no other
\* slot differs.
FilledOneSlot(Q1, Q2, packet) ==
  \E i \in DOMAIN Q1 :
    /\ ~Q1[i].has_value
    /\ Q2[i].has_value /\ Q2[i].address = packet.address
    /\ ~Q2[i].forward_checked /\ ~Q2[i].scheduled
    /\ \A j \in DOMAIN Q1 : j # i => Q2[j] = Q1[j]

\* The contract of add_rq and add_wq on the channels of the current state, for
\* every packet waiting in an upstream queue.
C11_AddContract ==
  \A u \in Upstreams :
    /\ \A k \in 1..Len(queues[u].WQ) :
         LET packet == queues[u].WQ[k]
             c      == get_channel(packet.address)
             r      == add_wq(channels, packet, current_time)
         IN  IF Full(channels[c].WQ)
               THEN /\ ~r.ok
                    /\ SameExcept(channels, r.channels, c, {"sim_stats"})
                    /\ r.channels[c].sim_stats
                         = [channels[c].sim_stats EXCEPT !.WQ_FULL = @ + 1]
               ELSE /\ r.ok
                    /\ SameExcept(channels, r.channels, c, {"WQ"})
                    /\ FilledOneSlot(channels[c].WQ, r.channels[c].WQ, packet)
    /\ \A q \in {"RQ", "PQ"} : \A k \in 1..Len(queues[u][q]) :
         LET packet == queues[u][q][k]
             c      == get_channel(packet.address)
             r      == add_rq(channels, packet, u, current_time)
         IN  IF Full(channels[c].RQ)
               THEN ~r.ok /\ r.channels = channels
               ELSE /\ r.ok
                    /\ SameExcept(channels, r.channels, c, {"RQ"})
                    /\ FilledOneSlot(channels[c].RQ, r.channels[c].RQ, packet)

\* The upstreams whose WQ head was refused by channel c in the tick.
RefusedWrites(c) ==
  {u \in Upstreams :
     /\ queues'[u].WQ # <<>>
     /\ get_channel(Head(queues'[u].WQ).address) = c}

\* What the admission of a tick leaves behind when add_wq refuses.
C11_TickEffect ==
  \A c \in Channels :
    LET adm == hist'.steps[c].admitted
    IN  /\ adm.sim_stats.WQ_FULL
             = channels[c].sim_stats.WQ_FULL + Cardinality(RefusedWrites(c))
        /\ \A u \in RefusedWrites(c) :
             /\ Full(adm.WQ)
             /\ \E n \in 1..Len(queues[u].WQ) :
                  queues'[u].WQ = SubSeq(queues[u].WQ, n, Len(queues[u].WQ))
        /\ \A u \in Upstreams :
             (queues'[u].RQ # <<>> /\ get_channel(Head(queues'[u].RQ).address) = c)
               => Full(adm.RQ)

\* C11: add_wq on a channel whose WQ is full returns false, adds exactly one to
\* that channel's WQ_FULL and changes nothing else; add_rq on a full RQ returns
\* false and changes nothing; either returns true and fills exactly one empty
\* slot when the target queue has one.  In a tick every refused write stays at
\* the head of its upstream WQ and WQ_FULL goes up by one per refusal.
C11_QueueFullBackpressure ==
  [][C11_AddContract /\ (IsTick => C11_TickEffect)]_vars

\* A tick in which a full WQ refused a write that stays at the head of its
\* upstream queue.
C11_Witness ==
  \E c \in Channels, u \in Upstreams :
    /\ hist.steps[c].admitted.sim_stats.WQ_FULL = hist.before[c].sim_stats.WQ_FULL + 1
    /\ Full(hist.before[c].WQ)
    /\ hist.steps[c].admitted.WQ = hist.before[c].WQ
    /\ queues[u].WQ # <<>>
    /\ get_channel(Head(queues[u].WQ).address) = c

\* The latest tick ran with warmup = true.
WarmupTick == Ticked /\ hist.warmup

\* C12: in a tick executed with warmup = true every present RQ entry gets one
\* response pushed to each of its return sinks by the drain, nothing else is
\* pushed in the tick (no write produces a response), and at the end of the
\* tick every RQ slot and every WQ slot of the channel is empty.
C12_WarmupDrain ==
  \A c \in Channels :
    WarmupTick =>
      LET pre  == After(c, "admitted")
          out  == hist.outs[c].warmup
          last == After(c, "schedule_packets")
      IN  /\ \A i \in Present(pre.RQ) : \A m \in 1..Len(Sinks(pre.RQ[i])) :
               Cardinality({n \in 1..Len(out) :
                  out[n] = [ret |-> Sinks(pre.RQ[i])[m],
                            response |-> [address |-> pre.RQ[i].address,
                                          data    |-> pre.RQ[i].packets[1].data,
                                          instr_depend_on_me |-> Deps(pre.RQ[i])]]}) = 1
          /\ \A n \in 1..Len(out) :
               \E i \in Present(pre.RQ) :
                 /\ out[n].ret \in SeqSet(Sinks(pre.RQ[i]))
                 /\ out[n].response.instr_depend_on_me = Deps(pre.RQ[i])
          /\ \A k \in 1..Len(StepNames) :
               StepNames[k] # "warmup" => hist.outs[c][StepNames[k]] = <<>>
          /\ Present(last.RQ) = {} /\ Present(last.WQ) = {}
          /\ Present(After(c, "warmup").RQ) = {} /\ Present(After(c, "warmup").WQ) = {}

\* A warmup tick that drained two reads with return sinks and a write.
C12_Witness ==
  /\ WarmupTick
  /\ \E c \in Channels :
       /\ Cardinality(Present(After(c, "admitted").RQ)) >= 2
       /\ Present(After(c, "admitted").WQ) # {}
       /\ Len(hist.outs[c].warmup) >= 2
       /\ Len(queues[0].returned) + Len(queues[1].returned) >= 2

\* C14 as stated: a tick executed with warmup = true leaves write_mode,
\* dbus_cycle_available, active_request, every bank_request and all statistics
\* counters of the channel as they were before the tick.
C14_WarmupSkipsRestOfTick ==
  \A c \in Channels :
    WarmupTick =>
      LET pre  == hist.before[c]
          last == After(c, "schedule_packets")
      IN  /\ last.write_mode = pre.write_mode
          /\ last.dbus_cycle_available = pre.dbus_cycle_available
          /\ last.active_request = pre.active_request
          /\ last.bank_request = pre.bank_request
          /\ last.sim_stats = pre.sim_stats

\* The addresses of the packets waiting upstream and of the queue entries.
HeldAddresses ==
  UNION {{queues[u][q][k].address : k \in 1..Len(queues[u][q])} :
           u \in Upstreams, q \in {"RQ", "PQ", "WQ"}}
  \cup UNION {{channels[c].RQ[i].address : i \in Present(channels[c].RQ)} : c \in Channels}
  \cup UNION {{channels[c].WQ[i].address : i \in Present(channels[c].WQ)} : c \in Channels}

\* The byte addresses of the configured DRAM.
DRAMAddresses == 0..(DRAM_size(cfg) - 1)

\* C13: for every address a the controller holds and every address b of the
\* configured DRAM, is_collision(a, b) is true exactly when a and b agree on
\* the channel, rank, bank, row and column fields of the address map,
\* whatever their offsets, and it is symmetric.
C13_SameBlock ==
  \A a \in HeldAddresses : \A b \in DRAMAddresses :
    /\ is_collision(a, b) <=> same_block(a, b)
    /\ is_collision(b, a) <=> same_block(a, b)

\* The controller holds an address with a non-zero offset in a block other
\* than the first one, whose fields are not all zero.
C13_Witness ==
  \E a \in HeldAddresses :
    /\ get_offset(a) # 0
    /\ get_row(a) # 0 /\ get_channel(a) # 0 /\ get_bank(a) # 0
    /\ is_collision(a, a - get_offset(a))
    /\ ~is_collision(a, a - BLOCK_SIZE)

\* The bank requests a mode switch resets: valid and not on the bus.
ResetBySwitch(ch) ==
  {b \in DOMAIN ch.bank_request : ch.bank_request[b].valid /\ b # ch.active_request}

\* C15: when swap_write_mode switches direction, every bank request that is
\* valid and not the active one becomes invalid, its queue entry stays in its
\* queue with scheduled = false and ready_time = current_time, and its open_row
\* is cleared exactly when its ready_time < current_time + tCAS; the active
\* bank request, every invalid bank request, active_request and every other
\* queue entry are left as they were.
C15_ModeSwitchEffectOnBanks ==
  \A c \in Channels :
    LET pre  == After(c, "finish_dbus_request")
        post == After(c, "swap_write_mode")
    IN  post.write_mode # pre.write_mode =>
          /\ post.active_request = pre.active_request
          /\ \A b \in DOMAIN pre.bank_request :
               LET br == pre.bank_request[b]
               IN  IF b \in ResetBySwitch(pre)
                     THEN /\ ~post.bank_request[b].valid
                          /\ (post.bank_request[b].open_row = NoRow)
                               <=> (br.ready_time < hist.time + cfg.tCAS \/ br.open_row = NoRow)
                          /\ post.bank_request[b].open_row \in {NoRow, br.open_row}
                          /\ PktEntry(pre, br.pkt).has_value
                          /\ PktEntry(pre, br.pkt).scheduled
                          /\ PktEntry(post, br.pkt)
                               = [PktEntry(pre, br.pkt) EXCEPT !.scheduled = FALSE,
                                                              !.ready_time = hist.time]
                     ELSE post.bank_request[b] = pre.bank_request[b]
          /\ \A s \in Slots(pre) :
               (\A b \in ResetBySwitch(pre) :
                  pre.bank_request[b].pkt # [q |-> s[1], idx |-> s[2]])
                 => QueueOf(post, s[1])[s[2]] = QueueOf(pre, s[1])[s[2]]

\* A switch that met a request on the bus and closed the row of a bank whose
\* request was waiting for the bus.
C15_Witness ==
  \E c \in Channels :
    LET pre  == After(c, "finish_dbus_request")
        post == After(c, "swap_write_mode")
    IN  /\ post.write_mode # pre.write_mode
        /\ pre.active_request # BankEnd(pre)
        /\ \E b \in ResetBySwitch(pre) :
             /\ pre.bank_request[b].open_row # NoRow
             /\ post.bank_request[b].open_row = NoRow

\* C16: a mode switch sets dbus_cycle_available to the ready_time of the active
\* request, or to current_time when none is active, plus the turn-around time;
\* and a bus transfer starts at least the turn-around time after the end of
\* the transfer before it when the two are of opposite directions.
C16_TurnaroundGap ==
  \A c \in Channels :
    LET pre  == After(c, "finish_dbus_request")
        post == After(c, "swap_write_mode")
        done == hist.done[c]
    IN  /\ post.write_mode # pre.write_mode =>
             post.dbus_cycle_available
               = (IF pre.active_request # BankEnd(pre)
                    THEN pre.bank_request[pre.active_request].ready_time
                    ELSE hist.time) + cfg.turnaround
        /\ \A n \in 1..(Len(done) - 1) :
             done[n].q # done[n + 1].q =>
               done[n + 1].promoted_at >= done[n].finished_at + cfg.turnaround
        /\ ( /\ Len(done) >= 1
             /\ channels[c].active_request # BankEnd(channels[c])
             /\ channels[c].bank_request[channels[c].active_request].pkt.q # done[Len(done)].q )
           => hist.bus[c].start >= done[Len(done)].finished_at + cfg.turnaround

\* A transfer that started exactly the turn-around time after the end of a
\* transfer of the opposite direction, scheduled before that one had ended.
C16_Witness ==
  \E c \in Channels :
    \E n \in 1..(Len(hist.done[c]) - 1) :
      /\ hist.done[c][n].q # hist.done[c][n + 1].q
      /\ hist.done[c][n + 1].promoted_at = hist.done[c][n].finished_at + cfg.turnaround
      /\ hist.done[c][n + 1].scheduled_at < hist.done[c][n].finished_at

\* The present, unscheduled entries of queue q whose target bank is free.
FreeBankCandidates(ch, q) ==
  {i \in Present(QueueOf(ch, q)) :
     /\ ~QueueOf(ch, q)[i].scheduled
     /\ ~ch.bank_request[bank_request_index(QueueOf(ch, q)[i].address)].valid}

\* The present, unscheduled entries of queue q whose target bank is busy.
BusyBankCandidates(ch, q) ==
  {i \in Present(QueueOf(ch, q)) :
     /\ ~QueueOf(ch, q)[i].scheduled
     /\ ch.bank_request[bank_request_index(QueueOf(ch, q)[i].address)].valid}

\* C17: in every tick without warmup schedule_packets works on WQ when
\* write_mode (as swap_write_mode left it) is true and on RQ when it is false,
\* and leaves the other queue alone.  If a present, unscheduled entry of that
\* queue has a free target bank and ready_time <= current_time, exactly one
\* entry is scheduled: a free-bank candidate of minimal ready_time among the
\* free-bank candidates; it gets scheduled = true and ready_time = infinity
\* and its bank request refers to it.  Otherwise nothing is scheduled.
C17_SchedulingSelection ==
  \A c \in Channels :
    (Ticked /\ ~hist.warmup) =>
      LET pre   == After(c, "populate_dbus")
          post  == After(c, "schedule_packets")
          q     == IF After(c, "swap_write_mode").write_mode THEN "WQ" ELSE "RQ"
          other == IF q = "WQ" THEN "RQ" ELSE "WQ"
          Q     == QueueOf(pre, q)
          Cand  == FreeBankCandidates(pre, q)
      IN  /\ QueueOf(post, other) = QueueOf(pre, other)
          /\ IF \E i \in Cand : Q[i].ready_time <= hist.time
               THEN \E i \in Cand :
                      /\ NewlyScheduled(pre, post) = {<<q, i>>}
                      /\ \A j \in Cand : Q[i].ready_time <= Q[j].ready_time
                      /\ QueueOf(post, q)
                           = [Q EXCEPT ![i] = [Q[i] EXCEPT !.scheduled = TRUE,
                                                           !.ready_time = TIME_MAX]]
                      /\ post.bank_request[bank_request_index(Q[i].address)].valid
                      /\ post.bank_request[bank_request_index(Q[i].address)].pkt
                           = [q |-> q, idx |-> i]
                      /\ \A b \in DOMAIN pre.bank_request :
                           b # bank_request_index(Q[i].address)
                             => post.bank_request[b] = pre.bank_request[b]
               ELSE post = pre

\* A tick that scheduled an entry although an entry in a lower slot, with a
\* smaller ready_time, was waiting for a busy bank.
C17_Witness ==
  \E c \in Channels :
    LET pre  == After(c, "populate_dbus")
        post == After(c, "schedule_packets")
    IN  \E s \in NewlyScheduled(pre, post) :
          \E j \in BusyBankCandidates(pre, s[1]) :
            /\ j < s[2]
            /\ QueueOf(pre, s[1])[j].ready_time < QueueOf(pre, s[1])[s[2]].ready_time

\* The upstream queues in the order initiate_requests serves them, and the
\* channel queue each of them feeds.
QueueKinds == <<"RQ", "PQ", "WQ">>
Target(q) == IF q = "WQ" THEN "WQ" ELSE "RQ"

\* The number of packets a tick takes from the front of an upstream queue.
AdmittedCount(u, q) == Len(queues[u][q]) - Len(queues'[u][q])

\* The packets a tick takes, as <<upstream, queue kind, position>>.
AdmittedSources ==
  {s \in Upstreams \X (1..3) \X (1..submitted) :
     s[3] <= AdmittedCount(s[1], QueueKinds[s[2]])}

SourcePacket(s) == queues[s[1]][QueueKinds[s[2]]][s[3]]

\* s1 is offered before s2.
OfferedBefore(s1, s2) ==
  \/ s1[1] < s2[1]
  \/ s1[1] = s2[1] /\ s1[2] < s2[2]
  \/ s1[1] = s2[1] /\ s1[2] = s2[2] /\ s1[3] < s2[3]

\* The slots of queue Q of channel c that a tick's admission fills.
NewSlots(c, Q) ==
  {i \in DOMAIN channels[c][Q] :
     ~channels[c][Q][i].has_value /\ hist'.steps[c].admitted[Q][i].has_value}

\* The slots a tick's admission fills with the packet of source s.
SlotsOf(s) ==
  LET packet == SourcePacket(s)
      c      == get_channel(packet.address)
      Q      == Target(QueueKinds[s[2]])
  IN  {i \in NewSlots(c, Q) :
         LET e == hist'.steps[c].admitted[Q][i]
         IN  /\ e.address = packet.address
             /\ Deps(e) = packet.instr_depend_on_me
             /\ e.packets[1].data = packet.data
             /\ Sinks(e) = (IF Q = "RQ" /\ packet.response_requested
                              THEN <<s[1]>> ELSE <<>>)}

C18_TickAdmission ==
  /\ \A u \in Upstreams : \A qi \in 1..3 :
       LET q == QueueKinds[qi]
       IN  /\ AdmittedCount(u, q) >= 0
           /\ queues'[u][q] = SubSeq(queues[u][q], AdmittedCount(u, q) + 1, Len(queues[u][q]))
           /\ queues'[u][q] # <<>> =>
                LET c == get_channel(Head(queues'[u][q]).address)
                IN  /\ Full(hist'.steps[c].admitted[Target(q)])
                    /\ \A s \in AdmittedSources :
                         ( /\ OfferedBefore(<<u, qi, AdmittedCount(u, q) + 1>>, s)
                           /\ Target(QueueKinds[s[2]]) = Target(q) )
                         => get_channel(SourcePacket(s).address) # c
  /\ \A s \in AdmittedSources : Cardinality(SlotsOf(s)) = 1
  /\ \A s1, s2 \in AdmittedSources :
       ( /\ OfferedBefore(s1, s2)
         /\ Target(QueueKinds[s1[2]]) = Target(QueueKinds[s2[2]])
         /\ get_channel(SourcePacket(s1).address) = get_channel(SourcePacket(s2).address) )
       => \A i \in SlotsOf(s1), j \in SlotsOf(s2) : i < j
  /\ \A c \in Channels : \A Q \in {"RQ", "WQ"} : \A i \in DOMAIN channels[c][Q] :
       IF i \in NewSlots(c, Q)
         THEN \E s \in AdmittedSources :
                /\ Target(QueueKinds[s[2]]) = Q
                /\ get_channel(SourcePacket(s).address) = c
                /\ i \in SlotsOf(s)
         ELSE hist'.steps[c].admitted[Q][i] = channels[c][Q][i]

\* C18: in each tick, for each upstream queue (RQ, then PQ, then WQ, upstream
\* by upstream) the controller erases exactly a prefix of the queue and leaves
\* the rest in its order; every erased packet fills exactly one empty slot of
\* its channel's queue, in the order offered, and every filled slot holds one
\* erased packet; the packet left at the head was refused by a full queue,
\* which takes no later packet in the tick either.
C18_AdmissionPrefix ==
  [][IsTick => C18_TickAdmission]_vars

\* A tick that left a refused packet at the head of an upstream queue and,
\* behind it, a packet for another channel whose queue had a free slot, after
\* admitting a packet in front of both.
C18_Witness ==
  \E u \in Upstreams : \E q \in {"RQ", "PQ", "WQ"} :
    /\ Len(hist.left[u][q]) >= 2
    /\ LET c1 == get_channel(hist.left[u][q][1].address)
           c2 == get_channel(hist.left[u][q][2].address)
       IN  /\ c1 # c2
           /\ Full(hist.steps[c1].admitted[Target(q)])
           /\ ~Full(hist.steps[c2].admitted[Target(q)])
           /\ \E i \in DOMAIN hist.before[c1][Target(q)] :
                /\ ~hist.before[c1][Target(q)][i].has_value
                /\ hist.steps[c1].admitted[Target(q)][i].has_value

ValidBanks(ch) == {b \in DOMAIN ch.bank_request : ch.bank_request[b].valid}

\* C19: outside warmup, after every tick, every valid bank request refers to a
\* present RQ or WQ entry that has scheduled = true, forward_checked = true and
\* ready_time = infinity and whose address decodes to the bank's index; every
\* present entry with scheduled = true is referred to by exactly one valid bank
\* request; the active request is a valid bank request.  The entries that
\* valid bank requests refer to are still present with their address after the
\* collision passes of a tick, and no call ever finds an empty slot behind a
\* bank request.
C19_BankQueueLinkage ==
  /\ pc = "running"
  /\ \A c \in Channels :
       LET ch == channels[c]
       IN  /\ \A b \in ValidBanks(ch) :
                LET pkt == ch.bank_request[b].pkt
                IN  /\ pkt.q \in {"RQ", "WQ"}
                    /\ pkt.idx \in DOMAIN QueueOf(ch, pkt.q)
                    /\ PktEntry(ch, pkt).has_value
                    /\ PktEntry(ch, pkt).scheduled
                    /\ PktEntry(ch, pkt).forward_checked
                    /\ PktEntry(ch, pkt).ready_time = TIME_MAX
                    /\ bank_request_index(PktEntry(ch, pkt).address) = b
           /\ \A s \in Slots(ch) :
                (QueueOf(ch, s[1])[s[2]].has_value /\ QueueOf(ch, s[1])[s[2]].scheduled)
                  => Cardinality({b \in ValidBanks(ch) :
                        ch.bank_request[b].pkt = [q |-> s[1], idx |-> s[2]]}) = 1
           /\ ch.active_request # BankEnd(ch) => ch.active_request \in ValidBanks(ch)
           /\ LET pre  == After(c, "warmup")
                  post == After(c, "check_read_collision")
              IN  \A b \in ValidBanks(pre) :
                    /\ PktEntry(post, pre.bank_request[b].pkt).has_value
                    /\ PktEntry(post, pre.bank_request[b].pkt).address
                         = PktEntry(pre, pre.bank_request[b].pkt).address
                    /\ post.bank_request[b] = pre.bank_request[b]

\* A tick whose collision passes dropped an entry while one request was on the
\* bus and another was scheduled, both still linked to their entries.
C19_Witness ==
  \E c \in Channels :
    /\ channels[c].active_request # BankEnd(channels[c])
    /\ Cardinality(ValidBanks(channels[c])) >= 2
    /\ Cardinality(ValidBanks(After(c, "warmup"))) >= 1
    /\ \/ Present(After(c, "check_read_collision").RQ) # Present(After(c, "warmup").RQ)
       \/ Present(After(c, "check_read_collision").WQ) # Present(After(c, "warmup").WQ)

\* The upstream has stopped: nothing is waiting in its queues and it submits
\* nothing more.
Quiet ==
  /\ pc = "running"
  /\ \A u \in Upstreams : \A q \in {"RQ", "PQ", "WQ"} : queues[u][q] = <<>>
  /\ submitted >= cfg.max_packets

Drained == \A c \in Channels : Present(channels[c].RQ) = {} /\ Present(channels[c].WQ) = {}

\* C20: outside warmup, once the upstream has stopped submitting and while
\* ticks keep occurring, both queues of every channel eventually become empty,
\* for every RQ and WQ capacity >= 1.
C20_EventualDrain == Quiet ~> Drained

\* The same with at least two WQ slots.
DrainWithTwoWriteSlots == (Quiet /\ cfg.wq_size >= 2) ~> Drained

\* With a single WQ slot the write watermarks are 0, the channel leaves read
\* mode in every tick it is in, and no read is ever put on the bus.
SingleSlotServesNoRead ==
  cfg.wq_size = 1 =>
    \A c \in Channels :
      channels[c].sim_stats.RQ_ROW_BUFFER_HIT + channels[c].sim_stats.RQ_ROW_BUFFER_MISS = 0

\* swap_write_mode inverted the mode in the tick that h records.
SwitchedIn(h, c) ==
  h.steps[c].swap_write_mode.write_mode # h.steps[c].finish_dbus_request.write_mode

\* The RQ and WQ occupancies swap_write_mode saw in that tick.
SeenBySwap(h, c) ==
  <<Occupancy(h.steps[c].finish_dbus_request.RQ), Occupancy(h.steps[c].finish_dbus_request.WQ)>>

\* C21: if swap_write_mode switches direction in one tick and sees the same RQ
\* and WQ occupancies in the next tick, it does not switch direction again in
\* that next tick, for every WQ capacity >= 1.
C21_NoModePingPong ==
  [][(IsTick /\ Ticked) =>
       \A c \in Channels :
         (SwitchedIn(hist, c) /\ SeenBySwap(hist', c) = SeenBySwap(hist, c))
           => ~SwitchedIn(hist', c)]_vars

\* The queue that write_mode selects.
SelectedQueue(ch) == IF ch.write_mode THEN "WQ" ELSE "RQ"

\* C22: a bank request promoted onto the bus serves a WQ entry iff write_mode
\* is true at that moment, and the counter incremented is the one of that
\* queue; after the mode-switch step of every tick, every valid bank request
\* other than the active one serves an entry of the queue write_mode selects.
C22_CounterDirectionMatchesRequest ==
  Ticked =>
    \A c \in Channels :
      LET sw == After(c, "swap_write_mode")
          po == After(c, "populate_dbus")
      IN  /\ \A b \in ValidBanks(sw) \ {sw.active_request} :
               sw.bank_request[b].pkt.q = SelectedQueue(sw)
          /\ NewlyActive(sw, po) =>
               /\ po.bank_request[po.active_request].pkt.q = SelectedQueue(sw)
               /\ po.write_mode = sw.write_mode
               /\ \A n \in RowBufferCounters :
                    po.sim_stats[n] =
                      sw.sim_stats[n]
                      + (IF n = CounterFor(po.bank_request[po.active_request].pkt.q,
                                           po.bank_request[po.active_request].row_buffer_hit)
                           THEN 1 ELSE 0)
          /\ ~NewlyActive(sw, po) =>
               \A n \in RowBufferCounters : po.sim_stats[n] = sw.sim_stats[n]

\* A write is promoted in write mode in a channel that has promoted reads
\* before, while another bank holds a scheduled write.
C22_Witness ==
  /\ Ticked
  /\ \E c \in Channels :
       LET sw == After(c, "swap_write_mode")
           po == After(c, "populate_dbus")
       IN  /\ NewlyActive(sw, po)
           /\ po.bank_request[po.active_request].pkt.q = "WQ"
           /\ sw.write_mode
           /\ ValidBanks(sw) \ {po.active_request} # {}
           /\ sw.sim_stats.RQ_ROW_BUFFER_HIT + sw.sim_stats.RQ_ROW_BUFFER_MISS > 0

====
